---- MODULE Spec2Model ----
(***************************************************************************)
(* Connection/session engine of @mcp-abap-adt/connection.                  *)
(*                                                                         *)
(* One connection instance (AbstractAbapConnection with its Basic and JWT  *)
(* variants) and the asynchronous calls running on it.  A call is          *)
(* suspended exactly at its network awaits (CSRF discovery request, main   *)
(* request, token refresh) and at its timers (sleep between CSRF attempts, *)
(* the 100 ms poll of the refresh wait loop); the code between two awaits  *)
(* runs without interleaving, so every action below resumes one call at    *)
(* its await with the outcome the environment chose and runs it to its     *)
(* next await.                                                             *)
(*                                                                         *)
(* The JWT variant exists in two shapes: "legacy" (the connection owns the *)
(* refresh token and calls the token endpoint itself, guarded by           *)
(* tokenRefreshInProgress) and "injected" (an ITokenRefresher is injected  *)
(* and tryRefreshToken delegates to it).                                   *)
(***************************************************************************)
EXTENDS Naturals, Sequences, FiniteSets, TLC

VARIABLES
    config,                 \* SapConfig + variant: authType, shape, canRefresh, storage
    csrfToken,              \* AbstractAbapConnection.csrfToken
    cookies,                \* AbstractAbapConnection.cookies (rendered header)
    cookieStore,            \* AbstractAbapConnection.cookieStore (insertion ordered)
    currentToken,           \* bearer token generation (config.jwtToken / currentToken)
    tokenRefreshInProgress, \* JwtAbapConnection.tokenRefreshInProgress (legacy)
    endpointCalls,          \* token endpoint / refresher calls started so far
    calls,                  \* the asynchronous calls: position and locals of each
    env,                    \* the scenario: who calls, and what the backend may answer
    axiosInstance,          \* AbstractAbapConnection.axiosInstance: TRUE when created
    session,                \* AbstractAbapConnection.sessionId and sessionMode
    peer,                   \* a second connection instance: its session state
    created                 \* what the constructor call ended with

vars == <<config, csrfToken, cookies, cookieStore, currentToken,
          tokenRefreshInProgress, endpointCalls, calls, env,
          axiosInstance, session, peer, created>>

-----------------------------------------------------------------------------
(* Bounds of the model *)

\* the concurrent call slots of the instance
Calls == {"a", "b"}

\* how many times the token endpoint / refresher can hand out a new token
MaxGen == 2

-----------------------------------------------------------------------------
(* Program constants *)

\* CSRF_CONFIG.RETRY_COUNT: default budget of fetchCsrfToken
RETRY_COUNT == 3

\* budget of the re-fetch on the CSRF-invalid branch: fetchCsrfToken(requestUrl, 5, 2000)
CsrfRetryBudget == 5

\* budget used by connect(): fetchCsrfToken(discoveryUrl, 3, 1000)
ConnectBudget == 3

\* budget of the cookie-acquiring fetch on 401-on-GET: fetchCsrfToken(requestUrl, 3, 1000)
Get401Budget == 3

\* CSRF_CONFIG.RETRY_DELAY: default delay between two attempts, in ms
RETRY_DELAY == 1000

\* delay of the re-fetch on the CSRF-invalid branch: fetchCsrfToken(requestUrl, 5, 2000)
CsrfRetryDelay == 2000

\* delay used by connect(): fetchCsrfToken(discoveryUrl, 3, 1000)
ConnectDelay == 1000

\* delay of the fetch on 401-on-GET: fetchCsrfToken(requestUrl, 3, 1000)
Get401Delay == 1000

-----------------------------------------------------------------------------
(* Values *)

NULL == "null"
ABSENT == "absent"
CALLER == "caller-supplied"

Methods == {"GET", "HEAD", "POST", "PUT", "DELETE"}

\* the three headers the pipeline owns; a caller may try to pass any of them
OwnedHeaders == {"Authorization", "x-csrf-token", "Cookie"}
CustomChoices == {{}, OwnedHeaders}

\* CSRF tokens the backend may issue
Tokens == {"T1", "T2"}

GenName == <<"0", "1", "2", "3", "4">>

\* the bearer token of generation g
Jwt(g) == "jwt" \o GenName[g + 1]

NoError == [kind |-> "none", status |-> 0, body |-> "", msg |-> ""]

\* an AxiosError carrying a response
HttpError(status, body) == [kind |-> "http", status |-> status, body |-> body, msg |-> ""]

\* an AxiosError without a response (ECONNREFUSED, ETIMEDOUT, ENOTFOUND, ...)
NetworkError == [kind |-> "network", status |-> 0, body |-> "", msg |-> "ECONNREFUSED"]

\* a plain Error thrown by the connection itself
PlainError(msg) == [kind |-> "plain", status |-> 0, body |-> "", msg |-> msg]

OK == [kind |-> "ok", status |-> 200, body |-> "", msg |-> ""]

\* the terminal messages
MsgExpired == "JWT token has expired. Please re-authenticate."
MsgExpiredNoRefresh == "JWT token has expired. Please refresh your authentication token."
MsgRefreshFailed == "JWT token has expired and refresh failed. Please re-authenticate."
MsgCsrfFetchFailed == "Failed to fetch CSRF token after N attempts"

\* response bodies, by the substrings the code looks for
\*   "plain"      none of the markers
\*   "perm"       contains "No authorization" (a permission-denied marker)
\*   "csrf"       contains "CSRF" but not "CSRF token"
\*   "csrfToken"  contains "CSRF token"
Bodies == {"plain", "perm", "csrf", "csrfToken"}

BodyIncludes(body, needle) ==
    CASE needle = "CSRF"             -> body \in {"csrf", "csrfToken"}
      [] needle = "CSRF token"       -> body = "csrfToken"
      [] needle = "No authorization" -> body = "perm"
      [] OTHER                       -> FALSE

-----------------------------------------------------------------------------
(* Cookie jar *)

\* Map.set(name, value) on an insertion-ordered Map: an existing key keeps its
\* position and takes the new value, a new key is appended
MapSet(store, name, value) ==
    IF \E i \in 1..Len(store) : store[i].name = name
    THEN [i \in 1..Len(store) |->
            IF store[i].name = name THEN [name |-> name, value |-> value] ELSE store[i]]
    ELSE Append(store, [name |-> name, value |-> value])

\* the loop over the Set-Cookie entries: entries without a name are skipped
RECURSIVE IngestEntries(_, _)
IngestEntries(store, entries) ==
    IF entries = <<>> THEN store
    ELSE LET e == Head(entries)
         IN IngestEntries(IF e.name = "" THEN store ELSE MapSet(store, e.name, e.value),
                          Tail(entries))

\* Array.from(cookieStore.entries()).map(value ? name=value : name).join('; ')
RECURSIVE RenderCookies(_)
RenderCookies(store) ==
    IF store = <<>> THEN ""
    ELSE LET e == Head(store)
             one == IF e.value = "" THEN e.name ELSE e.name \o "=" \o e.value
         IN IF Tail(store) = <<>> THEN one ELSE one \o "; " \o RenderCookies(Tail(store))

\* updateCookiesFromResponse: the jar [store, cookies] after a response with the
\* given Set-Cookie entries (<<>>: no set-cookie header)
updateCookiesFromResponse(jar, setCookie) ==
    IF setCookie = <<>> THEN jar
    ELSE LET store == IngestEntries(jar.store, setCookie)
             combined == RenderCookies(store)
         IN IF store = <<>> THEN [jar EXCEPT !.store = store]
            ELSE IF combined = "" THEN [jar EXCEPT !.store = store]
            ELSE [store |-> store, cookies |-> combined]

-----------------------------------------------------------------------------
(* Classification of errors *)

IsMutating(method) == method \in {"POST", "PUT", "DELETE"}

\* isNetworkError(error): a transport failure, no HTTP response
isNetworkError(e) == e.kind = "network"

\* variant: an error without a response passes for an auth failure
IsAuthStatusOrNoResponse(e) ==
    e.kind = "network" \/ (e.kind = "http" /\ e.status \in {401, 403})

\* error instanceof AxiosError && (status === 401 || status === 403)
IsAuthStatus(e) == e.kind = "http" /\ e.status \in {401, 403}

\* the text of a response body, in pieces of one letter case each; the bodies
\* of CaseBodies say the same in other spellings
BodyText(body) ==
    CASE body = "perm"            -> <<"No", " ", "authorization">>
      [] body = "permLower"       -> <<"no", " ", "authorization">>
      [] body = "permUpper"       -> <<"NO", " ", "AUTHORIZATION">>
      [] body = "missing"         -> <<"Missing", " ", "authorization">>
      [] body = "missingLower"    -> <<"missing", " ", "authorization">>
      [] body = "resourceNoAccess" -> <<"ExceptionResource", "No", "Access">>
      [] body = "noAccess"        -> <<"no", " ", "access">>
      [] OTHER                    -> <<"Unauthorized">>

CaseBodies ==
    {"plain", "perm", "permLower", "permUpper", "missing", "missingLower",
     "resourceNoAccess", "noAccess"}

\* String.prototype.includes: needle occurs in text as it is spelled
includes(text, needle) ==
    \E i \in 0..(Len(text) - Len(needle)) : SubSeq(text, i + 1, i + Len(needle)) = needle

\* the markers the JWT catch blocks look for
PermissionMarkers ==
    {<<"ExceptionResource", "No", "Access">>,
     <<"No", " ", "authorization">>,
     <<"Missing", " ", "authorization">>}

\* responseText.includes(one of the permission-denied markers)
IsPermissionDenied(e) ==
    \E m \in PermissionMarkers : includes(BodyText(e.body), m)

\* a shouldRetryCsrf without the check of the auth scheme
shouldRetryCsrfWhateverScheme(e, authType, method, token) ==
    IF e.kind \notin {"http", "network"} THEN FALSE
    ELSE LET needsCsrfToken == IsMutating(method) /\ token = NULL
         IN \/ (e.kind = "http" /\ e.status = 403 /\ BodyIncludes(e.body, "CSRF"))
            \/ BodyIncludes(e.body, "CSRF token")
            \/ (needsCsrfToken /\ e.kind = "http" /\ e.status = 401)

\* shouldRetryCsrf(error), for the request method and the cached token
shouldRetryCsrf(e, authType, method, token) ==
    IF e.kind \notin {"http", "network"} THEN FALSE
    ELSE IF authType = "jwt" THEN FALSE
    ELSE LET needsCsrfToken == IsMutating(method) /\ token = NULL
         IN \/ (e.kind = "http" /\ e.status = 403 /\ BodyIncludes(e.body, "CSRF"))
            \/ BodyIncludes(e.body, "CSRF token")
            \/ (needsCsrfToken /\ e.kind = "http" /\ e.status = 401)

-----------------------------------------------------------------------------
(* Headers *)

\* an Authorization header that is always rendered from the token of the
\* configuration
buildAuthorizationHeaderFromConfig(authType, gen) ==
    IF authType = "basic" THEN "Basic dXNlcjpwYXNz" ELSE "Bearer " \o Jwt(0)

\* buildAuthorizationHeader of the two variants
buildAuthorizationHeader(authType, gen) ==
    IF authType = "basic" THEN "Basic dXNlcjpwYXNz" ELSE "Bearer " \o Jwt(gen)

\* the owned headers of makeAdtRequest's requestHeaders: caller headers first,
\* then Authorization, then x-csrf-token (mutating and cached), then Cookie (if any)
BuildRequestHeaders(method, custom, authType, gen, token, cookieHeader) ==
    [Authorization |-> buildAuthorizationHeader(authType, gen),
     csrf   |-> IF IsMutating(method) /\ token # NULL THEN token
                ELSE IF "x-csrf-token" \in custom THEN CALLER ELSE ABSENT,
     Cookie |-> IF cookieHeader # NULL THEN cookieHeader
                ELSE IF "Cookie" \in custom THEN CALLER ELSE ABSENT]

\* the headers of a CSRF discovery request
BuildCsrfHeaders(authType, gen, cookieHeader) ==
    [Authorization |-> buildAuthorizationHeader(authType, gen),
     csrf   |-> "fetch",
     Cookie |-> IF cookieHeader # NULL THEN cookieHeader ELSE ABSENT]

\* the session headers a caller may pass in options.headers
SessionHeaderNames ==
    {"sap-adt-connection-id", "x-sap-adt-sessiontype", "sap-adt-request-id",
     "X-sap-adt-profiling"}

\* one session header of a request: the pipeline's value where it sets one,
\* else what the caller passed
SessionHeader(name, custom, set, value) ==
    IF set THEN value ELSE IF name \in custom THEN CALLER ELSE ABSENT

\* the session headers of a main request: sap-adt-connection-id if there is a
\* (non-empty) session id, and the three stateful headers in stateful mode,
\* each over the caller headers copied before
SessionHeaders(custom, sess) ==
    LET stateful == sess.sessionMode = "stateful"
    IN [connectionId |-> SessionHeader("sap-adt-connection-id", custom,
                                       sess.sessionId # "", sess.sessionId),
        sessionType  |-> SessionHeader("x-sap-adt-sessiontype", custom, stateful, "stateful"),
        requestId    |-> SessionHeader("sap-adt-request-id", custom, stateful, "fresh"),
        profiling    |-> SessionHeader("X-sap-adt-profiling", custom, stateful, "server-time")]

NoHeaders == [Authorization |-> ABSENT, csrf |-> ABSENT, Cookie |-> ABSENT]
NoRequest == [kind |-> "none", method |-> "", headers |-> NoHeaders]

-----------------------------------------------------------------------------
(* A call: its position and its locals *)

IdleCall ==
    [op       |-> "none",     \* "execute" (makeAdtRequest) or "connect"
     pc       |-> "idle",     \* the await the call is suspended at
     method   |-> "GET",      \* options.method
     custom   |-> {},         \* which owned headers options.headers carries
     phase    |-> "first",    \* JWT makeAdtRequest: first super call or the replay
     stage    |-> "main",     \* base makeAdtRequest: which transmission is in flight
     err      |-> NoError,    \* base makeAdtRequest: the error of the first transmission
     fRet     |-> "none",     \* who called fetchCsrfToken
     fBudget  |-> 0,          \* retryCount
     fAttempt |-> 0,          \* attempt
     fDelay   |-> 0,          \* retryDelay
     fRound   |-> 0,          \* injected fetchCsrfToken: 0 first super call, 1 after refresh
     cRet     |-> "top",      \* who called connect: the caller or legacy makeAdtRequest
     cRound   |-> 0,          \* legacy connect: 0 first fetch, 1 the fetch after refresh
     rRet     |-> "none",     \* who asked for the refresh
     hdrs     |-> NoHeaders,  \* base makeAdtRequest: requestHeaders
     req      |-> NoRequest,  \* the request this call transmitted last
     result   |-> NoError,    \* what the call returned or threw
     \* observations, written only, for the properties
     nRefresh |-> 0,          \* refreshToken() / tryRefreshToken() runs that went for a token
     nMain    |-> 0,          \* transmissions of the main request
     nWire    |-> 0,          \* all requests this call put on the wire
     auth0    |-> ABSENT]     \* Authorization of the first transmission of the main request

\* the connection state a continuation reads and writes
Conn == [csrfToken |-> csrfToken, cookies |-> cookies, cookieStore |-> cookieStore,
         currentToken |-> currentToken,
         tokenRefreshInProgress |-> tokenRefreshInProgress,
         endpointCalls |-> endpointCalls,
         axiosInstance |-> axiosInstance]

\* a reset() that clears the cookie map but keeps the cookie string
resetKeepsCookieString(g) ==
    [g EXCEPT !.axiosInstance = FALSE, !.csrfToken = NULL, !.cookieStore = <<>>]

\* a reset() that also drops the current bearer token
resetDropsBearerToken(g) ==
    [g EXCEPT !.axiosInstance = FALSE, !.currentToken = 0,
              !.csrfToken = NULL, !.cookies = NULL, !.cookieStore = <<>>]

\* reset(): the axios instance released, csrfToken, cookies and cookieStore cleared
reset(g) ==
    [g EXCEPT !.axiosInstance = FALSE,
              !.csrfToken = NULL, !.cookies = NULL, !.cookieStore = <<>>]

\* updateCookiesFromResponse applied to the connection
Ingest(g, setCookie) ==
    LET jar == updateCookiesFromResponse([store |-> g.cookieStore, cookies |-> g.cookies],
                                        setCookie)
    IN [g EXCEPT !.cookieStore = jar.store, !.cookies = jar.cookies]

\* the call returns or throws to its caller
Finish(S, result) == [S EXCEPT !.l.pc = "done", !.l.result = result]

\* one iteration of the fetchCsrfToken loop up to its await: headers, GET discovery
SendDiscovery(S) ==
    [S EXCEPT !.l.pc = "fetchWait",
              !.g.axiosInstance = TRUE,
              !.l.nWire = @ + 1,
              !.l.req = [kind |-> "discovery", method |-> "GET",
                         headers |-> BuildCsrfHeaders(config.authType, S.g.currentToken,
                                                      S.g.cookies)]]

\* variant: every caller of fetchCsrfToken leaves retryDelay at its default
FetchDelayDefault(ret) == RETRY_DELAY

\* the retryDelay each caller of fetchCsrfToken passes
FetchDelay(ret) ==
    CASE ret = "ensure"    -> RETRY_DELAY
      [] ret = "connect"   -> ConnectDelay
      [] ret = "csrfRetry" -> CsrfRetryDelay
      [] ret = "get401"    -> Get401Delay

\* fetchCsrfToken(url, retryCount, retryDelay) called by ret
StartFetch(S, ret, budget) ==
    SendDiscovery([S EXCEPT !.l.fRet = ret, !.l.fBudget = budget,
                            !.l.fDelay = FetchDelay(ret),
                            !.l.fAttempt = 0, !.l.fRound = 0])

\* makeAdtRequest from the header assembly to the await of the transport call
BuildAndSendMain(S) ==
    [S EXCEPT !.l.pc = "mainWait",
              !.g.axiosInstance = TRUE,
              !.l.stage = "main",
              !.l.nMain = @ + 1,
              !.l.nWire = @ + 1,
              !.l.auth0 = IF S.l.nMain = 0
                          THEN buildAuthorizationHeader(config.authType, S.g.currentToken)
                          ELSE @,
              !.l.hdrs = BuildRequestHeaders(S.l.method, S.l.custom, config.authType,
                                             S.g.currentToken, S.g.csrfToken, S.g.cookies)
                             @@ SessionHeaders(S.l.custom, session),
              !.l.req = [kind |-> "main", method |-> S.l.method,
                         headers |-> BuildRequestHeaders(S.l.method, S.l.custom,
                                        config.authType, S.g.currentToken,
                                        S.g.csrfToken, S.g.cookies)
                                     @@ SessionHeaders(S.l.custom, session)]]

\* a retry inside base makeAdtRequest: the same requestConfig, with the headers
\* the branch updated
Resend(S, stage, headers) ==
    [S EXCEPT !.l.pc = "mainWait",
              !.g.axiosInstance = TRUE,
              !.l.stage = stage,
              !.l.nMain = @ + 1,
              !.l.nWire = @ + 1,
              !.l.hdrs = headers,
              !.l.req = [kind |-> "main", method |-> S.l.method, headers |-> headers]]

\* base makeAdtRequest from its entry: the upfront CSRF fetch for a mutating
\* method without a cached token (ensureFreshCsrfToken), else the request
BaseStart(S, phase) ==
    LET S1 == [S EXCEPT !.l.phase = phase]
    IN IF IsMutating(S.l.method) /\ S.g.csrfToken = NULL
       THEN StartFetch(S1, "ensure", RETRY_COUNT)
       ELSE BuildAndSendMain(S1)

\* connect() from its entry: fetchCsrfToken(discoveryUrl, 3, 1000)
StartConnect(S, ret) ==
    StartFetch([S EXCEPT !.l.cRet = ret, !.l.cRound = 0], "connect", ConnectBudget)

\* connect() returns: to the caller, or to step 3 of legacy makeAdtRequest
ConnectReturn(S) ==
    IF S.l.cRet = "top" THEN Finish(S, OK) ELSE BaseStart(S, "replay")

\* connect() throws: to the caller; legacy makeAdtRequest swallows it and goes on
ConnectThrow(S, e) ==
    IF S.l.cRet = "top" THEN Finish(S, e) ELSE BaseStart(S, "replay")

\* tryRefreshToken() with a refresher: the await of tokenRefresher.refreshToken()
StartTryRefresh(S, ret) ==
    [S EXCEPT !.l.pc = "refreshWait", !.l.rRet = ret, !.l.nRefresh = @ + 1,
              !.g.endpointCalls = @ + 1]

\* legacy refreshToken(): wait for a refresh in progress, else set the flag and
\* await refreshJwtToken(...)
StartRefreshToken(S, ret) ==
    IF S.g.tokenRefreshInProgress
    THEN [S EXCEPT !.l.pc = "refreshPoll", !.l.rRet = ret, !.l.nRefresh = @ + 1]
    ELSE [S EXCEPT !.l.pc = "refreshWait", !.l.rRet = ret, !.l.nRefresh = @ + 1,
                   !.g.tokenRefreshInProgress = TRUE,
                   !.g.endpointCalls = @ + 1]

\* the catch block of the JWT connect(), both shapes
ConnectCatchJwt(S, e) ==
    IF config.shape = "legacy" /\ S.l.cRound = 1
    THEN \* the fetch after the refresh failed: catch (refreshError)
         ConnectThrow(S, PlainError(MsgRefreshFailed))
    ELSE IF ~IsAuthStatus(e) THEN ConnectThrow(S, e)
    ELSE IF IsPermissionDenied(e) THEN ConnectThrow(S, e)
    ELSE IF config.shape = "injected"
         THEN IF config.canRefresh THEN StartTryRefresh(S, "connect")
              ELSE ConnectThrow(S, PlainError(MsgExpired))
         ELSE IF config.canRefresh THEN StartRefreshToken(S, "connect")
              ELSE ConnectThrow(S, PlainError(MsgExpiredNoRefresh))

\* a catch block of connect() that rethrows under Basic auth as well
ConnectCatchRethrows(S, e) ==
    IF config.authType = "basic" THEN ConnectThrow(S, e) ELSE ConnectCatchJwt(S, e)

\* the catch block of connect(): Basic logs and continues
ConnectCatch(S, e) ==
    IF config.authType = "basic" THEN ConnectReturn(S) ELSE ConnectCatchJwt(S, e)

\* base makeAdtRequest returned a response: the JWT wrapper returns it as well
BaseReturn(S) == Finish(S, OK)

\* the catch block of JwtAbapConnection.makeAdtRequest around the first super call
ExecCatchJwt(S, e) ==
    IF ~IsAuthStatus(e) THEN Finish(S, e)
    ELSE IF IsPermissionDenied(e) THEN Finish(S, e)
    ELSE IF config.shape = "injected"
         THEN IF config.canRefresh THEN StartTryRefresh(S, "exec")
              ELSE Finish(S, PlainError(MsgExpired))
         ELSE IF config.canRefresh THEN StartRefreshToken(S, "exec")
              ELSE Finish(S, PlainError(MsgExpiredNoRefresh))

\* the replay of JwtAbapConnection.makeAdtRequest threw: injected returns the
\* promise of super.makeAdtRequest, legacy wraps a 401/403 (catch (retryError))
ReplayCatchJwt(S, e) ==
    IF config.shape = "legacy" /\ IsAuthStatus(e)
    THEN Finish(S, PlainError(MsgRefreshFailed))
    ELSE Finish(S, e)

\* base makeAdtRequest throws e
BaseThrow(S, e) ==
    IF config.authType = "basic" THEN Finish(S, e)
    ELSE IF S.l.phase = "first" THEN ExecCatchJwt(S, e)
    ELSE ReplayCatchJwt(S, e)

\* ensureFreshCsrfToken got its token: this.csrfToken = token; then the request
EnsureReturn(S, token) == BuildAndSendMain([S EXCEPT !.g.csrfToken = token])

\* connect() got its token: this.setCsrfToken(token)
ConnectFetchReturn(S, token) == ConnectReturn([S EXCEPT !.g.csrfToken = token])

\* variant: the replay goes out with the headers of the first transmission
CsrfRetryReturnStaleHeaders(S, token) ==
    Resend([S EXCEPT !.g.csrfToken = token], "csrfRetry", S.l.hdrs)

\* the CSRF-invalid branch got its token: cache it, put it in x-csrf-token,
\* refresh Cookie from the jar, replay
CsrfRetryReturn(S, token) ==
    Resend([S EXCEPT !.g.csrfToken = token], "csrfRetry",
           [S.l.hdrs EXCEPT !.csrf = token,
                            !.Cookie = IF S.g.cookies # NULL THEN S.g.cookies ELSE @])

\* variant: the replay goes out whether or not the fetch left cookies
Get401ReturnAlwaysReplay(S, token) ==
    Resend([S EXCEPT !.g.csrfToken = token], "get401Fetched",
           [S.l.hdrs EXCEPT !.Cookie = S.g.cookies])

\* the 401-on-GET branch got its token: cache it; replay only if the fetch
\* left cookies in the jar, else throw the original error
Get401Return(S, token) ==
    IF S.g.cookies # NULL
    THEN Resend([S EXCEPT !.g.csrfToken = token], "get401Fetched",
                [S.l.hdrs EXCEPT !.Cookie = S.g.cookies])
    ELSE BaseThrow([S EXCEPT !.g.csrfToken = token], S.l.err)

\* fetchCsrfToken returned token to its caller
FetchReturn(S, token) ==
    CASE S.l.fRet = "ensure"    -> EnsureReturn(S, token)
      [] S.l.fRet = "connect"   -> ConnectFetchReturn(S, token)
      [] S.l.fRet = "csrfRetry" -> CsrfRetryReturn(S, token)
      [] S.l.fRet = "get401"    -> Get401Return(S, token)

\* variant: a failure of the upfront fetch ends the request
FetchThrowEndsRequest(S, e) ==
    CASE S.l.fRet = "ensure"    -> BaseThrow(S, e)
      [] S.l.fRet = "connect"   -> ConnectCatch(S, e)
      [] S.l.fRet = "csrfRetry" -> BaseThrow(S, e)
      [] S.l.fRet = "get401"    -> BaseThrow(S, S.l.err)

\* fetchCsrfToken threw e to its caller
FetchThrow(S, e) ==
    CASE S.l.fRet = "ensure"    -> BuildAndSendMain(S)   \* swallowed
      [] S.l.fRet = "connect"   -> ConnectCatch(S, e)
      [] S.l.fRet = "csrfRetry" -> BaseThrow(S, e)
      [] S.l.fRet = "get401"    -> BaseThrow(S, S.l.err) \* catch (csrfError): fall through

\* the catch block of the injected JwtAbapConnection.fetchCsrfToken around the
\* first super.fetchCsrfToken
FetchCatchJwt(S, e) ==
    IF ~IsAuthStatus(e) THEN FetchThrow(S, e)
    ELSE IF IsPermissionDenied(e) THEN FetchThrow(S, e)
    ELSE IF config.canRefresh THEN StartTryRefresh(S, "fetch")
    ELSE FetchThrow(S, PlainError(MsgExpired))

\* base fetchCsrfToken threw e: through the override where there is one
FetchBaseThrow(S, e) ==
    IF config.authType = "jwt" /\ config.shape = "injected" /\ S.l.fRound = 0
    THEN FetchCatchJwt(S, e)
    ELSE FetchThrow(S, e)

\* variant: an attempt without a token drops the cached token
FetchResumeDropsCachedToken(S, r) ==
    LET S1 == IF r.kind = "network" THEN S
              ELSE [S EXCEPT !.g = Ingest(S.g, r.setCookie)]
        S2 == [S1 EXCEPT !.g.csrfToken = NULL]
    IN IF r.kind # "network" /\ r.token # NULL THEN FetchReturn(S1, r.token)
       ELSE IF S.l.fAttempt < S.l.fBudget THEN [S2 EXCEPT !.l.pc = "fetchSleep"]
       ELSE IF r.kind = "http" THEN FetchBaseThrow(S2, HttpError(r.status, r.body))
       ELSE FetchBaseThrow(S2, PlainError(MsgCsrfFetchFailed))

\* variant: a token on an error response is not taken
FetchResumeTokenOnSuccessOnly(S, r) ==
    LET S1 == IF r.kind = "network" THEN S
              ELSE [S EXCEPT !.g = Ingest(S.g, r.setCookie)]
    IN IF r.kind = "ok" /\ r.token # NULL THEN FetchReturn(S1, r.token)
       ELSE IF S.l.fAttempt < S.l.fBudget THEN [S1 EXCEPT !.l.pc = "fetchSleep"]
       ELSE IF r.kind = "http" THEN FetchBaseThrow(S1, HttpError(r.status, r.body))
       ELSE FetchBaseThrow(S1, PlainError(MsgCsrfFetchFailed))

\* variant: the attempt loop runs while attempt <= retryCount + 1
FetchResumeOneMoreAttempt(S, r) ==
    LET S1 == IF r.kind = "network" THEN S
              ELSE [S EXCEPT !.g = Ingest(S.g, r.setCookie)]
    IN IF r.kind # "network" /\ r.token # NULL THEN FetchReturn(S1, r.token)
       ELSE IF S.l.fAttempt <= S.l.fBudget THEN [S1 EXCEPT !.l.pc = "fetchSleep"]
       ELSE IF r.kind = "http" THEN FetchBaseThrow(S1, HttpError(r.status, r.body))
       ELSE FetchBaseThrow(S1, PlainError(MsgCsrfFetchFailed))

\* base fetchCsrfToken, resumed with the outcome r of the discovery request:
\* cookies are ingested from any response; a response carrying x-csrf-token
\* (an error response too, 405 included) yields the token; otherwise sleep
\* and retry while attempt < retryCount, then throw
FetchResume(S, r) ==
    LET S1 == IF r.kind = "network" THEN S
              ELSE [S EXCEPT !.g = Ingest(S.g, r.setCookie)]
    IN IF r.kind # "network" /\ r.token # NULL THEN FetchReturn(S1, r.token)
       ELSE IF S.l.fAttempt < S.l.fBudget THEN [S1 EXCEPT !.l.pc = "fetchSleep"]
       ELSE IF r.kind = "http" THEN FetchBaseThrow(S1, HttpError(r.status, r.body))
       ELSE FetchBaseThrow(S1, PlainError(MsgCsrfFetchFailed))

\* base makeAdtRequest, resumed with the outcome r of a transmission
MainResume(S, r) ==
    LET e  == IF r.kind = "http" THEN HttpError(r.status, r.body) ELSE NetworkError
        S0 == S
    IN CASE S.l.stage = "main" ->
              IF r.kind = "ok" THEN BaseReturn([S0 EXCEPT !.g = Ingest(S.g, r.setCookie)])
              ELSE
                LET S1 == IF r.kind = "http"
                          THEN [S0 EXCEPT !.g = Ingest(S.g, r.setCookie)] ELSE S0
                    S2 == [S1 EXCEPT !.l.err = e]
                IN IF isNetworkError(e) THEN BaseThrow(S1, e)
                   ELSE IF shouldRetryCsrf(e, config.authType, S.l.method, S1.g.csrfToken)
                        THEN StartFetch(S2, "csrfRetry", CsrfRetryBudget)
                   ELSE IF e.kind = "http" /\ e.status = 401 /\ S.l.method = "GET"
                           /\ config.authType = "basic"
                        THEN IF S1.g.cookies # NULL
                             THEN Resend(S2, "get401", [S.l.hdrs EXCEPT !.Cookie = S1.g.cookies])
                             ELSE StartFetch(S2, "get401", Get401Budget)
                   ELSE BaseThrow(S1, e)
         [] S.l.stage \in {"csrfRetry", "get401"} ->
              \* the retry is awaited in the catch block: its error leaves as it is
              IF r.kind = "ok" THEN BaseReturn([S0 EXCEPT !.g = Ingest(S.g, r.setCookie)])
              ELSE BaseThrow(S0, e)
         [] S.l.stage = "get401Fetched" ->
              \* the retry is awaited inside try { } catch (csrfError): its error
              \* is dropped and the original one is thrown
              IF r.kind = "ok" THEN BaseReturn([S0 EXCEPT !.g = Ingest(S.g, r.setCookie)])
              ELSE BaseThrow(S0, S.l.err)

\* variant: makeAdtRequest replays after the refresh without this.reset()
AfterRefreshKeepsSession(S) ==
    CASE S.l.rRet = "exec" ->
           IF config.shape = "injected"
           THEN BaseStart(S, "replay")
           ELSE StartConnect(S, "reconnect")
      [] S.l.rRet = "connect" ->
           IF config.shape = "injected"
           THEN StartConnect(S, S.l.cRet)
           ELSE StartFetch([S EXCEPT !.l.cRound = 1], "connect", ConnectBudget)
      [] S.l.rRet = "fetch" ->
           SendDiscovery([S EXCEPT !.l.fRound = 1, !.l.fAttempt = 0])

\* the refresh succeeded (or, legacy, the wait loop ended): back to who asked
AfterRefresh(S) ==
    CASE S.l.rRet = "exec" ->
           IF config.shape = "injected"
           THEN BaseStart([S EXCEPT !.g = reset(S.g)], "replay")  \* this.reset(); replay
           ELSE StartConnect(S, "reconnect")                      \* step 2: connect()
      [] S.l.rRet = "connect" ->
           IF config.shape = "injected"
           THEN StartConnect(S, S.l.cRet)                         \* return this.connect()
           ELSE StartFetch([S EXCEPT !.l.cRound = 1], "connect", ConnectBudget)
      [] S.l.rRet = "fetch" ->
           \* return super.fetchCsrfToken(url, retryCount, retryDelay)
           SendDiscovery([S EXCEPT !.l.fRound = 1, !.l.fAttempt = 0])

\* variant: a failed refresh is taken for a successful one
RefreshFailedGoesOn(S) == AfterRefresh(S)

\* the refresh failed: the terminal error of who asked
RefreshFailed(S) ==
    LET e == PlainError(IF config.shape = "injected" THEN MsgExpired ELSE MsgRefreshFailed)
    IN CASE S.l.rRet = "exec"    -> Finish(S, e)
         [] S.l.rRet = "connect" -> ConnectThrow(S, e)
         [] S.l.rRet = "fetch"   -> FetchThrow(S, e)

\* variant: the in-flight flag is lowered on the success path only
RefreshResumeNoFinally(S, ok) ==
    IF config.shape = "injected"
    THEN IF ok THEN AfterRefresh([S EXCEPT !.g.currentToken = @ + 1])
         ELSE RefreshFailed(S)
    ELSE IF ok
         THEN IF config.storage
              THEN [S EXCEPT !.g = [reset(S.g) EXCEPT !.currentToken = @ + 1],
                             !.l.pc = "clearWait"]
              ELSE AfterRefresh([S EXCEPT !.g = [reset(S.g) EXCEPT !.currentToken = @ + 1,
                                                                   !.tokenRefreshInProgress = FALSE]])
         ELSE RefreshFailed(S)

\* variant: a failed refresh clears the session like a successful one
RefreshResumeResetsOnFailure(S, ok) ==
    IF config.shape = "injected"
    THEN IF ok THEN AfterRefresh([S EXCEPT !.g.currentToken = @ + 1])
         ELSE RefreshFailed([S EXCEPT !.g = reset(S.g)])
    ELSE IF ok
         THEN IF config.storage
              THEN [S EXCEPT !.g = [reset(S.g) EXCEPT !.currentToken = @ + 1],
                             !.l.pc = "clearWait"]
              ELSE AfterRefresh([S EXCEPT !.g = [reset(S.g) EXCEPT !.currentToken = @ + 1,
                                                                   !.tokenRefreshInProgress = FALSE]])
         ELSE RefreshFailed([S EXCEPT !.g = [reset(S.g) EXCEPT !.tokenRefreshInProgress = FALSE]])

\* tryRefreshToken / refreshToken resumed with the token endpoint's answer
RefreshResume(S, ok) ==
    IF config.shape = "injected"
    THEN IF ok THEN AfterRefresh([S EXCEPT !.g.currentToken = @ + 1])
         ELSE RefreshFailed(S)
    ELSE IF ok
         THEN IF config.storage
              THEN \* config.jwtToken = ...; this.reset(); await this.clearSessionState()
                   [S EXCEPT !.g = [reset(S.g) EXCEPT !.currentToken = @ + 1],
                             !.l.pc = "clearWait"]
              ELSE AfterRefresh([S EXCEPT !.g = [reset(S.g) EXCEPT !.currentToken = @ + 1,
                                                                   !.tokenRefreshInProgress = FALSE]])
         ELSE RefreshFailed([S EXCEPT !.g.tokenRefreshInProgress = FALSE])

\* a refreshToken that leaves the flag set after clearSessionState()
ClearResumeKeepsFlag(S) == AfterRefresh(S)

\* legacy refreshToken resumed after clearSessionState(): its failure is caught
\* and logged; finally { tokenRefreshInProgress = false }; back to who asked
ClearResume(S) == AfterRefresh([S EXCEPT !.g.tokenRefreshInProgress = FALSE])

-----------------------------------------------------------------------------
(* The backend and the token endpoint: what a request can be answered with *)

\* the SAP session the backend ties to the credentials of a request
SessionOf(auth) ==
    IF auth = buildAuthorizationHeader("basic", 0) THEN "basic"
    ELSE Jwt(CHOOSE g \in 0..(Len(GenName) - 1) : buildAuthorizationHeader("jwt", g) = auth)

\* the Set-Cookie headers of a response to req: none, or the session cookie
SetCookieChoices(req) ==
    {<<>>, <<[name |-> "SAP_SESSIONID", value |-> SessionOf(req.headers.Authorization)]>>}

Response(kind, status, body, token, setCookie) ==
    [kind |-> kind, status |-> status, body |-> body, token |-> token,
     setCookie |-> setCookie]

\* answers to a CSRF discovery request
DiscoveryOutcomes(req) ==
    IF env.backend = "any"
    THEN {Response("network", 0, "", NULL, <<>>)}
         \cup {Response("ok", 200, "plain", t, sc) :
                 t \in Tokens \cup {NULL}, sc \in SetCookieChoices(req)}
         \cup {Response("http", 405, "plain", t, <<>>) : t \in Tokens}
         \cup {Response("http", st, b, NULL, sc) :
                 st \in {401, 403}, b \in {"plain", "perm"}, sc \in SetCookieChoices(req)}
         \cup {Response("http", 500, "plain", NULL, <<>>)}
    ELSE IF env.backend = "session"
    THEN \* a backend that serves or rejects, and may set its session cookie
         {Response("ok", 200, "plain", "T1", sc) : sc \in SetCookieChoices(req)}
         \cup {Response("http", 401, "plain", NULL, <<>>)}
    ELSE IF env.backend = "case"
    THEN \* a backend that serves, or rejects with a body in some spelling
         {Response("ok", 200, "plain", "T1", <<>>)}
         \cup {Response("http", st, b, NULL, <<>>) : st \in {401, 403}, b \in CaseBodies}
    ELSE \* a backend that either serves the request or rejects the bearer token
         {Response("ok", 200, "plain", "T1", <<>>),
          Response("http", 401, "plain", NULL, <<>>)}

\* answers to a main request
MainOutcomes(req) ==
    IF env.backend = "any"
    THEN {Response("network", 0, "", NULL, <<>>)}
         \cup {Response("ok", 200, "plain", NULL, sc) : sc \in SetCookieChoices(req)}
         \cup {Response("http", st, b, NULL, sc) :
                 st \in {401, 403}, b \in Bodies, sc \in SetCookieChoices(req)}
         \cup {Response("http", 500, b, NULL, <<>>) : b \in {"plain", "csrfToken"}}
    ELSE IF env.backend = "session"
    THEN {Response("ok", 200, "plain", NULL, sc) : sc \in SetCookieChoices(req)}
         \cup {Response("http", 401, "plain", NULL, <<>>)}
    ELSE IF env.backend = "case"
    THEN {Response("ok", 200, "plain", NULL, <<>>)}
         \cup {Response("http", st, b, NULL, <<>>) : st \in {401, 403}, b \in CaseBodies}
    ELSE {Response("ok", 200, "plain", NULL, <<>>),
          Response("http", 401, "plain", NULL, <<>>)}

-----------------------------------------------------------------------------
(* Actions *)

\* the connection fields and the locals of call c after the continuation that
\* produced S
CommitConnection(c, S) ==
    /\ csrfToken' = S.g.csrfToken
    /\ cookies' = S.g.cookies
    /\ cookieStore' = S.g.cookieStore
    /\ currentToken' = S.g.currentToken
    /\ tokenRefreshInProgress' = S.g.tokenRefreshInProgress
    /\ endpointCalls' = S.g.endpointCalls
    /\ axiosInstance' = S.g.axiosInstance
    /\ calls' = [calls EXCEPT ![c] = S.l]

\* the state after call c ran the continuation that produced S; the
\* configuration, the session id and mode and the second instance stay
Commit(c, S) ==
    /\ CommitConnection(c, S)
    /\ UNCHANGED <<config, env, session, peer, created>>

Here(c) == [g |-> Conn, l |-> calls[c]]

\* makeAdtRequest(options) is called
Execute(c) ==
    /\ c \in env.slots
    /\ calls[c].pc = "idle"
    /\ \E m \in env.methods, h \in env.customs :
         Commit(c, BaseStart([g |-> Conn,
                              l |-> [calls[c] EXCEPT !.op = "execute", !.method = m,
                                                     !.custom = h]], "first"))

\* connect() is called
Connect(c) ==
    /\ c \in env.slots
    /\ calls[c].pc = "idle"
    /\ Commit(c, StartConnect([g |-> Conn, l |-> [calls[c] EXCEPT !.op = "connect"]], "top"))

\* the discovery request of call c is answered
DiscoveryResponse(c) ==
    /\ calls[c].pc = "fetchWait"
    /\ \E r \in DiscoveryOutcomes(calls[c].req) : Commit(c, FetchResume(Here(c), r))

\* the sleep between two CSRF attempts ends: the next iteration of the loop
FetchWake(c) ==
    /\ calls[c].pc = "fetchSleep"
    /\ Commit(c, SendDiscovery([Here(c) EXCEPT !.l.fAttempt = @ + 1]))

\* the main request of call c is answered
MainResponse(c) ==
    /\ calls[c].pc = "mainWait"
    /\ \E r \in MainOutcomes(calls[c].req) : Commit(c, MainResume(Here(c), r))

\* the token endpoint (or the injected refresher) answers call c
RefreshResponse(c) ==
    /\ calls[c].pc = "refreshWait"
    /\ \E ok \in BOOLEAN :
         /\ ok => currentToken < MaxGen
         /\ Commit(c, RefreshResume(Here(c), ok))

\* the session storage answers the clearSessionState() of call c, with success
\* or with an error
ClearResponse(c) ==
    /\ calls[c].pc = "clearWait"
    /\ \E ok \in BOOLEAN : Commit(c, ClearResume(Here(c)))

\* the 100 ms timer of the legacy wait loop fires: leave the loop once the
\* flag is down, and return as after a refresh
PollWake(c) ==
    /\ calls[c].pc = "refreshPoll"
    /\ IF tokenRefreshInProgress
       THEN UNCHANGED vars
       ELSE Commit(c, AfterRefresh(Here(c)))

\* the constructor returned a connection
Constructed == [state |-> "connection", error |-> ""]

\* the session state of a connection that has not talked to the backend yet
EmptySession == [csrfToken |-> NULL, cookies |-> NULL, cookieStore |-> <<>>]

BasicConfig ==
    [authType |-> "basic", shape |-> "none", canRefresh |-> FALSE, storage |-> FALSE]

\* the JWT variants: shape, refresh capability, and (legacy) a session storage
\* with a session id, which refreshToken clears
JwtConfigs ==
    {cfg \in [authType : {"jwt"}, shape : {"legacy", "injected"},
              canRefresh : BOOLEAN, storage : BOOLEAN] :
        cfg.storage => (cfg.shape = "legacy" /\ cfg.canRefresh)}

\* the session a connection can hold when a call starts: none, or the token
\* and the cookie an earlier connect() left
SessionChoices(cfg) ==
    LET sid == [name |-> "SAP_SESSIONID",
                value |-> SessionOf(buildAuthorizationHeader(cfg.authType, 0))]
    IN {[csrfToken |-> NULL, cookieStore |-> <<>>],
        [csrfToken |-> "T1", cookieStore |-> <<sid>>],
        [csrfToken |-> NULL, cookieStore |-> <<sid>>]}

InitConnection(sessions) ==
    /\ \E ss \in sessions :
         /\ csrfToken = ss.csrfToken
         /\ cookieStore = ss.cookieStore
         /\ cookies = IF ss.cookieStore = <<>> THEN NULL ELSE RenderCookies(ss.cookieStore)
    /\ currentToken = 0
    /\ tokenRefreshInProgress = FALSE
    /\ endpointCalls = 0
    /\ axiosInstance = FALSE
    /\ session = [sessionId |-> "session-A", sessionMode |-> "stateless"]
    /\ peer = EmptySession
    /\ created = Constructed
    /\ calls = [c \in Calls |-> IdleCall]

\* one call at a time, any caller input, any backend answer
Init ==
    /\ config \in {BasicConfig} \cup JwtConfigs
    /\ env = [slots |-> {"a"}, methods |-> Methods, customs |-> CustomChoices,
              backend |-> "any"]
    /\ InitConnection(SessionChoices(config))

Next ==
    \E c \in Calls :
        \/ Execute(c)
        \/ Connect(c)
        \/ DiscoveryResponse(c)
        \/ FetchWake(c)
        \/ MainResponse(c)
        \/ RefreshResponse(c)
        \/ ClearResponse(c)

Spec == Init /\ [][Next]_vars

\* two concurrent calls on a JWT connection that can refresh, against a
\* backend that serves a request or rejects its bearer token with a 401
InitConcurrent ==
    /\ config \in {cfg \in JwtConfigs : cfg.canRefresh}
    /\ env = [slots |-> Calls, methods |-> {"GET"}, customs |-> {{}},
              backend |-> "token"]
    /\ InitConnection({[csrfToken |-> NULL, cookieStore |-> <<>>]})

NextConcurrent ==
    \E c \in Calls :
        \/ Execute(c)
        \/ Connect(c)
        \/ DiscoveryResponse(c)
        \/ FetchWake(c)
        \/ MainResponse(c)
        \/ RefreshResponse(c)
        \/ ClearResponse(c)
        \/ PollWake(c)

SpecConcurrent == InitConcurrent /\ [][NextConcurrent]_vars

\* two concurrent calls on a connection with the wait loop in refreshToken;
\* the timers of the wait loop and of the CSRF retry delay fire
InitWaiters ==
    /\ config \in {cfg \in JwtConfigs : cfg.shape = "legacy" /\ cfg.canRefresh}
    /\ env = [slots |-> Calls, methods |-> {"GET"}, customs |-> {{}},
              backend |-> "token"]
    /\ InitConnection({[csrfToken |-> NULL, cookieStore |-> <<>>]})

SpecWaiters ==
    /\ InitWaiters
    /\ [][NextConcurrent]_vars
    /\ \A c \in Calls : WF_vars(PollWake(c)) /\ WF_vars(FetchWake(c))

\* one call, any backend answer; every discovery request is answered or times
\* out (timeout: getTimeout('csrf')) and the timer between two attempts fires
InitFetch ==
    /\ config \in {BasicConfig} \cup JwtConfigs
    /\ env = [slots |-> {"a"}, methods |-> {"GET", "POST"}, customs |-> {{}},
              backend |-> "any"]
    /\ InitConnection(SessionChoices(config))

SpecFetch ==
    /\ InitFetch
    /\ [][Next]_vars
    /\ \A c \in Calls : WF_vars(DiscoveryResponse(c)) /\ WF_vars(FetchWake(c))

\* one call on a JWT connection that can refresh, against a backend whose
\* 401/403 bodies come in several spellings
InitClassify ==
    /\ config \in {cfg \in JwtConfigs : cfg.canRefresh}
    /\ env = [slots |-> {"a"}, methods |-> {"GET", "POST"}, customs |-> {{}},
              backend |-> "case"]
    /\ InitConnection({EmptySession, [csrfToken |-> "T1", cookieStore |-> <<>>]})

SpecClassify == InitClassify /\ [][Next]_vars

\* two concurrent GET calls on a JWT connection that can refresh, against a
\* backend that ties a session cookie to the bearer token of the request
InitStale ==
    /\ config \in {cfg \in JwtConfigs : cfg.canRefresh /\ ~cfg.storage}
    /\ env = [slots |-> Calls, methods |-> {"GET"}, customs |-> {{}},
              backend |-> "session"]
    /\ InitConnection({[csrfToken |-> NULL, cookieStore |-> <<>>]})

NextStale ==
    \E c \in Calls :
        \/ Execute(c)
        \/ DiscoveryResponse(c)
        \/ FetchWake(c)
        \/ MainResponse(c)
        \/ RefreshResponse(c)
        \/ PollWake(c)

SpecStale == InitStale /\ [][NextStale]_vars

-----------------------------------------------------------------------------
(* Session state: export, import, reset, and the operations that change it *)

\* cookie names whose text is an array index: a JavaScript object lists such
\* keys first, whatever the order they were added in
IntegerNames == {"1"}

IsIntegerName(e) == e.name \in IntegerNames

IsStringName(e) == e.name \notin IntegerNames

\* Object.fromEntries(this.cookieStore): the entries in the key order of the
\* object, array-index keys before the other keys, those in insertion order
ObjectFromEntries(store) ==
    SelectSeq(store, IsIntegerName) \o SelectSeq(store, IsStringName)

\* getSessionState() when there is neither a cookie string nor a CSRF token
NullSnapshot ==
    [isNull |-> TRUE, cookies |-> ABSENT, csrfToken |-> ABSENT,
     hasCookieStore |-> FALSE, cookieStore |-> <<>>]

\* getSessionState()
getSessionState(g) ==
    IF g.cookies = NULL /\ g.csrfToken = NULL THEN NullSnapshot
    ELSE [isNull |-> FALSE, cookies |-> g.cookies, csrfToken |-> g.csrfToken,
          hasCookieStore |-> TRUE, cookieStore |-> ObjectFromEntries(g.cookieStore)]

\* setSessionState(state): state.cookies || null, state.csrfToken || null,
\* new Map(Object.entries(state.cookieStore || {})); reading a field of null
\* throws before anything is assigned
setSessionState(g, state) ==
    IF state.isNull THEN g
    ELSE [g EXCEPT !.cookies = IF state.cookies \in {ABSENT, NULL, ""} THEN NULL
                                ELSE state.cookies,
                   !.csrfToken = IF state.csrfToken \in {ABSENT, NULL, ""} THEN NULL
                                  ELSE state.csrfToken,
                   !.cookieStore = IF state.hasCookieStore THEN state.cookieStore
                                    ELSE <<>>]

\* the owned headers of the next request of a connection holding session
\* state g, for a caller that passes no headers
NextRequestHeaders(g, method) ==
    BuildRequestHeaders(method, {}, config.authType, currentToken, g.csrfToken, g.cookies)

\* the longest Set-Cookie list of one response
MaxSetCookie == 2

CookieNames == {"SAP_SESSIONID", "1"}
CookieValues == {"", "v"}

\* the Set-Cookie entries of a response, as name and value after the split on
\* ";" and "=" and the trim; an entry can lack a name
SetCookieEntries ==
    {[name |-> n, value |-> v] : n \in CookieNames, v \in CookieValues}
        \cup {[name |-> "", value |-> "v"]}

SetCookieLists ==
    UNION {[1..n -> SetCookieEntries] : n \in 1..MaxSetCookie}

\* the snapshots a caller can pass to setSessionState: what a connection
\* exported, or any part of it
PartialSnapshots ==
    LET sid == <<[name |-> "SAP_SESSIONID", value |-> "v"]>>
    IN {[isNull |-> FALSE, cookies |-> ck, csrfToken |-> t,
         hasCookieStore |-> hs, cookieStore |-> IF hs THEN sid ELSE <<>>] :
            ck \in {ABSENT, RenderCookies(sid)}, t \in {ABSENT, "T1"}, hs \in BOOLEAN}

\* the connection state becomes g; nothing else moves
SetConn(g) ==
    /\ csrfToken' = g.csrfToken
    /\ cookies' = g.cookies
    /\ cookieStore' = g.cookieStore
    /\ currentToken' = g.currentToken
    /\ tokenRefreshInProgress' = g.tokenRefreshInProgress
    /\ endpointCalls' = g.endpointCalls
    /\ axiosInstance' = g.axiosInstance
    /\ UNCHANGED <<config, env, calls, session, peer, created>>

\* a response (success or error) of some request arrives and its Set-Cookie
\* headers are ingested
IngestResponse ==
    /\ env.slots = {}
    /\ \E sc \in SetCookieLists :
         SetConn([Ingest(Conn, sc) EXCEPT !.axiosInstance = TRUE])

\* a fetched CSRF token is cached
CacheToken ==
    /\ env.slots = {}
    /\ \E t \in Tokens : SetConn([Conn EXCEPT !.csrfToken = t])

\* reset() is called
Reset ==
    /\ env.slots = {}
    /\ SetConn(reset(Conn))

\* setSessionState(state) is called with a full or a partial snapshot
SetSessionState ==
    /\ env.slots = {}
    /\ \E state \in PartialSnapshots : SetConn(setSessionState(Conn, state))

\* a credential refresh replaces the bearer token: with reset() in
\* refreshToken, without it in tryRefreshToken
CredentialRefresh ==
    /\ config.authType = "jwt"
    /\ config.canRefresh
    /\ currentToken < MaxGen
    /\ SetConn(IF config.shape = "legacy"
               THEN [reset(Conn) EXCEPT !.currentToken = @ + 1]
               ELSE [Conn EXCEPT !.currentToken = @ + 1])

\* setSessionType(type) is called
SetSessionType ==
    /\ \E type \in {"stateful", "stateless"} :
         session' = [session EXCEPT !.sessionMode = type]
    /\ UNCHANGED <<config, csrfToken, cookies, cookieStore, currentToken,
                   tokenRefreshInProgress, endpointCalls, calls, env,
                   axiosInstance, peer, created>>

\* the second instance ingests the Set-Cookie headers of a response of its own
PeerIngest ==
    /\ \E e \in SetCookieEntries :
         LET jar == updateCookiesFromResponse(
                        [store |-> peer.cookieStore, cookies |-> peer.cookies], <<e>>)
         IN peer' = [peer EXCEPT !.cookieStore = jar.store, !.cookies = jar.cookies]
    /\ UNCHANGED <<config, csrfToken, cookies, cookieStore, currentToken,
                   tokenRefreshInProgress, endpointCalls, calls, env,
                   axiosInstance, session, created>>

\* B.setSessionState(A.getSessionState())
TransferSession ==
    /\ peer' = setSessionState(peer, getSessionState(Conn))
    /\ UNCHANGED <<config, csrfToken, cookies, cookieStore, currentToken,
                   tokenRefreshInProgress, endpointCalls, calls, env,
                   axiosInstance, session, created>>

\* a connection and a second instance of the same configuration, no call
\* running: the operations on the session state in any order
InitSession ==
    /\ config \in {BasicConfig} \cup {cfg \in JwtConfigs : cfg.canRefresh /\ ~cfg.storage}
    /\ env = [slots |-> {}, methods |-> Methods, customs |-> {{}}, backend |-> "any"]
    /\ InitConnection({EmptySession})

NextSession ==
    \/ IngestResponse
    \/ CacheToken
    \/ Reset
    \/ SetSessionState
    \/ CredentialRefresh
    \/ SetSessionType
    \/ PeerIngest
    \/ TransferSession

SpecSession == InitSession /\ [][NextSession]_vars

\* the bearer token of the second instance, created from the same
\* configuration object and never refreshed itself: refreshToken writes the
\* new token into that object and buildAuthorizationHeader reads it from
\* there, while tryRefreshToken keeps the token in a field of its own instance
PeerBearerToken == IF config.shape = "legacy" THEN currentToken ELSE 0

\* the Authorization header of the next request of the second instance
PeerAuthorization == buildAuthorizationHeader(config.authType, PeerBearerToken)

-----------------------------------------------------------------------------
(* Session id and session mode while requests are made *)

\* the id randomUUID() returns at construction
GeneratedId == "uuid-1"

\* constructor: this.sessionId = sessionId || randomUUID()
ConstructSessionId(supplied) ==
    IF supplied \in {ABSENT, ""} THEN GeneratedId ELSE supplied

\* the strings a caller may pass as a session id
SessionIds == {"", "session-A", "session-B"}

\* setSessionId(sessionId) is called
SetSessionId ==
    /\ \E id \in SessionIds : session' = [session EXCEPT !.sessionId = id]
    /\ UNCHANGED <<config, csrfToken, cookies, cookieStore, currentToken,
                   tokenRefreshInProgress, endpointCalls, calls, env,
                   axiosInstance, peer, created>>

\* a Basic connection constructed with or without a caller-supplied session
\* id; one call, with or without session headers of the caller, while the
\* session mode and the session id are set at any moment
InitHeaders ==
    /\ config = BasicConfig
    /\ env = [slots |-> {"a"}, methods |-> {"GET", "POST"},
              customs |-> {{}, SessionHeaderNames}, backend |-> "token"]
    /\ csrfToken = NULL
    /\ cookies = NULL
    /\ cookieStore = <<>>
    /\ currentToken = 0
    /\ tokenRefreshInProgress = FALSE
    /\ endpointCalls = 0
    /\ axiosInstance = FALSE
    /\ \E supplied \in {ABSENT} \cup SessionIds :
         session = [sessionId |-> ConstructSessionId(supplied), sessionMode |-> "stateless"]
    /\ peer = EmptySession
    /\ created = Constructed
    /\ calls = [c \in Calls |-> IdleCall]

NextHeaders ==
    \/ SetSessionType
    \/ SetSessionId
    \/ \E c \in Calls :
        \/ Execute(c)
        \/ DiscoveryResponse(c)
        \/ FetchWake(c)
        \/ MainResponse(c)

SpecHeaders == InitHeaders /\ [][NextHeaders]_vars

-----------------------------------------------------------------------------
(* The token endpoint exchange of refreshToken *)

\* refresh tokens the token endpoint may issue
RefreshTokens == {"R1", "R2"}

\* the answers of the token endpoint to a refresh with bearer generation gen:
\* 200 with or without access_token and refresh_token, an HTTP error, no answer
TokenResponses(gen) ==
    {[kind |-> "ok", hasAccessToken |-> a, access_token |-> gen + 1, refresh_token |-> r] :
        a \in BOOLEAN, r \in {ABSENT, ""} \cup RefreshTokens}
    \cup {[kind |-> k, hasAccessToken |-> FALSE, access_token |-> 0, refresh_token |-> ABSENT] :
            k \in {"http", "network"}}

\* a refreshJwtToken that takes every 200 answer for a successful refresh
refreshJwtTokenAcceptsAnyAnswer(resp, refreshToken) ==
    IF resp.kind = "ok"
    THEN [ok |-> TRUE, accessToken |-> resp.access_token,
          refreshToken |-> IF resp.refresh_token \in {ABSENT, ""} THEN refreshToken
                           ELSE resp.refresh_token]
    ELSE [ok |-> FALSE, accessToken |-> 0, refreshToken |-> ""]

\* refreshJwtToken: the tokens of a 200 answer with access_token
\* (refresh_token || refreshToken), else an error
refreshJwtToken(resp, refreshToken) ==
    IF resp.kind = "ok" /\ resp.hasAccessToken
    THEN [ok |-> TRUE, accessToken |-> resp.access_token,
          refreshToken |-> IF resp.refresh_token \in {ABSENT, ""} THEN refreshToken
                           ELSE resp.refresh_token]
    ELSE [ok |-> FALSE, accessToken |-> 0, refreshToken |-> ""]

\* the token endpoint answers the refreshToken() of call c with resp:
\* config.jwtToken = tokens.accessToken; if (tokens.refreshToken)
\* config.refreshToken = tokens.refreshToken; then as for any refresh
RefreshExchangeWith(c, resp) ==
    LET tokens == refreshJwtToken(resp, config.refreshToken)
    IN /\ tokens.ok => currentToken < MaxGen
       /\ CommitConnection(c, RefreshResume(Here(c), tokens.ok))
       /\ config' = IF tokens.ok /\ tokens.refreshToken # ""
                    THEN [config EXCEPT !.refreshToken = tokens.refreshToken]
                    ELSE config
       /\ UNCHANGED <<env, session, peer, created>>

RefreshExchange(c) ==
    /\ calls[c].pc = "refreshWait"
    /\ config.shape = "legacy"
    /\ \E resp \in TokenResponses(currentToken) : RefreshExchangeWith(c, resp)

\* the injected tokenRefresher answers the tryRefreshToken() of call c: a new
\* token, or it throws
RefresherAnswer(c) ==
    /\ config.shape = "injected"
    /\ RefreshResponse(c)

\* a JWT connection that can refresh, with the refresh token of its
\* configuration, one call, a backend that rejects or serves; the connection
\* may hold the session an earlier connect() left
InitRefresh ==
    /\ config \in {cfg @@ [refreshToken |-> "R0"] :
                     cfg \in {k \in JwtConfigs : k.canRefresh}}
    /\ env = [slots |-> {"a"}, methods |-> {"GET", "POST"}, customs |-> {{}},
              backend |-> "token"]
    /\ InitConnection(SessionChoices(config))

NextRefresh ==
    \E c \in Calls :
        \/ Execute(c)
        \/ Connect(c)
        \/ DiscoveryResponse(c)
        \/ FetchWake(c)
        \/ MainResponse(c)
        \/ RefreshExchange(c)
        \/ RefresherAnswer(c)
        \/ ClearResponse(c)

SpecRefresh == InitRefresh /\ [][NextRefresh]_vars

-----------------------------------------------------------------------------
(* Construction *)

\* the configuration objects a caller may pass
RawConfigs ==
    [authType : {ABSENT, "basic", "jwt", "xsuaa"},
     url      : {ABSENT, "not a url", "https://host:8000"},
     username : {ABSENT, "", "user"},
     password : {ABSENT, "", "pass"},
     client   : {ABSENT, "100"},
     jwtToken : {ABSENT, "", "jwt0"}]

\* how the connection is created
Constructors == {"createAbapConnection", "BaseAbapConnection", "JwtAbapConnection"}

\* new URL(config.url) returns
UrlParses(url) == url \in {"https://host:8000"}

\* a falsy configuration field
Missing(v) == v \in {ABSENT, ""}

Thrown(msg) == [state |-> "error", error |-> msg]

\* the constructor of AbstractAbapConnection: the session id, then the URL
AbstractConstructor(raw) ==
    IF UrlParses(raw.url) THEN Constructed ELSE Thrown("Invalid URL in configuration")

\* a BaseAbapConnection.validateConfig that does not ask for the client
BasicValidateWithoutClient(raw) ==
    IF raw.authType # "basic"
    THEN Thrown("Basic authentication connection expects authType basic")
    ELSE IF Missing(raw.username) \/ Missing(raw.password)
    THEN Thrown("Basic authentication requires both username and password")
    ELSE Constructed

\* BaseAbapConnection.validateConfig
BasicValidateConfig(raw) ==
    IF raw.authType # "basic"
    THEN Thrown("Basic authentication connection expects authType basic")
    ELSE IF Missing(raw.username) \/ Missing(raw.password)
    THEN Thrown("Basic authentication requires both username and password")
    ELSE IF Missing(raw.client)
    THEN Thrown("Basic authentication requires SAP_CLIENT to be provided")
    ELSE Constructed

\* JwtAbapConnection.validateConfig
JwtValidateConfig(raw) ==
    IF raw.authType # "jwt"
    THEN Thrown("JWT connection expects authType jwt")
    ELSE IF Missing(raw.jwtToken)
    THEN Thrown("JWT authentication requires SAP_JWT_TOKEN to be provided")
    ELSE Constructed

\* new BaseAbapConnection(config, ...): validateConfig, then super(...)
NewBaseAbapConnection(raw) ==
    IF BasicValidateConfig(raw) # Constructed THEN BasicValidateConfig(raw)
    ELSE AbstractConstructor(raw)

\* new JwtAbapConnection(config, ...): validateConfig, super(...), the token
NewJwtAbapConnection(raw) ==
    IF JwtValidateConfig(raw) # Constructed THEN JwtValidateConfig(raw)
    ELSE IF AbstractConstructor(raw) # Constructed THEN AbstractConstructor(raw)
    ELSE IF Missing(raw.jwtToken) THEN Thrown("jwtToken is required for JwtAbapConnection")
    ELSE Constructed

\* createAbapConnection(config, ...)
createAbapConnection(raw) ==
    CASE raw.authType = "basic" -> NewBaseAbapConnection(raw)
      [] raw.authType = "jwt"   -> NewJwtAbapConnection(raw)
      [] OTHER                  -> Thrown("Unsupported SAP authentication type")

\* no connection yet
NotConstructed == [state |-> "none", error |-> ""]

NoConfig == [authType |-> "none", shape |-> "none", canRefresh |-> FALSE, storage |-> FALSE]

\* the configuration of the connection constructed from raw
ConfigOf(raw, refresher) ==
    IF raw.authType = "basic" THEN BasicConfig
    ELSE [authType |-> "jwt", shape |-> "injected", canRefresh |-> refresher,
          storage |-> FALSE]

\* the constructor is called
Construct ==
    /\ created = NotConstructed
    /\ created' = CASE env.via = "BaseAbapConnection" -> NewBaseAbapConnection(env.raw)
                    [] env.via = "JwtAbapConnection"  -> NewJwtAbapConnection(env.raw)
                    [] OTHER                          -> createAbapConnection(env.raw)
    /\ config' = IF created' = Constructed THEN ConfigOf(env.raw, env.refresher) ELSE config
    /\ UNCHANGED <<csrfToken, cookies, cookieStore, currentToken,
                   tokenRefreshInProgress, endpointCalls, calls, env,
                   axiosInstance, session, peer>>

\* connect() is called on the connection constructed
ConnectConstructed(c) ==
    /\ created = Constructed
    /\ Connect(c)

\* a caller with a configuration object and a way to construct; nothing exists
\* before the constructor is called
InitConstruct ==
    /\ \E raw \in RawConfigs, via \in Constructors, refresher \in BOOLEAN :
         env = [slots |-> {"a"}, methods |-> {"GET"}, customs |-> {{}},
                backend |-> "token", raw |-> raw, via |-> via, refresher |-> refresher]
    /\ config = NoConfig
    /\ csrfToken = NULL
    /\ cookies = NULL
    /\ cookieStore = <<>>
    /\ currentToken = 0
    /\ tokenRefreshInProgress = FALSE
    /\ endpointCalls = 0
    /\ axiosInstance = FALSE
    /\ session = [sessionId |-> GeneratedId, sessionMode |-> "stateless"]
    /\ peer = EmptySession
    /\ created = NotConstructed
    /\ calls = [c \in Calls |-> IdleCall]

NextConstruct ==
    \/ Construct
    \/ \E c \in Calls : ConnectConstructed(c)

SpecConstruct == InitConstruct /\ [][NextConstruct]_vars

-----------------------------------------------------------------------------
(* Properties *)

\* the calls standing at the await of the token endpoint / the injected refresher
RefreshOutstanding == {c \in Calls : calls[c].pc = "refreshWait"}

\* C1: at any instant at most one refresh call (to the token endpoint, or to the
\* injected refresher) is outstanding on a connection; a call that needs a
\* refresh while one is in flight waits for it instead of starting another
C1_AtMostOneRefreshOutstanding == Cardinality(RefreshOutstanding) <= 1

\* call c is a request that went out with the first bearer token, was answered
\* 401, asked for one refresh, was replayed once and succeeded
RejectedOnceAndServed(c) ==
    /\ calls[c].op = "execute"
    /\ calls[c].pc = "done"
    /\ calls[c].result = OK
    /\ calls[c].auth0 = buildAuthorizationHeader("jwt", 0)
    /\ calls[c].nRefresh = 1
    /\ calls[c].nMain = 2

\* C2: two concurrent requests that both receive a 401 for the same expired
\* token cause exactly one call to the token endpoint in total, whatever the
\* order of the two 401 responses and the refresh response, and both are
\* replayed with the refreshed token
C2_OneEndpointCallForTwo401s ==
    (\A c \in Calls : RejectedOnceAndServed(c))
        => /\ endpointCalls = 1
           /\ \A c \in Calls :
                calls[c].req.headers.Authorization = buildAuthorizationHeader("jwt", 1)

\* C3: within one connect, request or CSRF fetch on a JWT connection the refresh
\* is invoked at most once and the operation is replayed at most once
C3_RefreshAtMostOncePerCall ==
    config.authType = "jwt"
        => \A c \in Calls : calls[c].nRefresh <= 1 /\ calls[c].nMain <= 2

\* C4: whenever a refresh replaces the bearer token, the cached CSRF token and
\* the cookie jar are cleared in the same atomic step, on every refresh path
C4_SwapClearsSession ==
    [][currentToken' # currentToken
          => csrfToken' = NULL /\ cookies' = NULL /\ cookieStore' = <<>>]_vars

\* a 401/403 answer whose body carries a permission-denied marker
IsPermissionDeniedResponse(r) ==
    r.kind = "http" /\ r.status \in {401, 403} /\ BodyIncludes(r.body, "No authorization")

\* T is call c thrown out with exactly the error of answer r, with no refresh
\* asked for and nothing more put on the wire
PropagatedUnchanged(c, T, r) ==
    /\ T.l.pc = "done"
    /\ T.l.result = HttpError(r.status, r.body)
    /\ T.l.nRefresh = calls[c].nRefresh
    /\ T.l.nWire = calls[c].nWire
    /\ T.g.endpointCalls = endpointCalls

\* C5: when a JWT request fails with 401 or 403 and the body contains a
\* permission-denied marker, no refresh is invoked, no replay is attempted and
\* the original error reaches the caller unchanged, never as a re-authenticate
\* error
C5_PermissionDeniedPropagates ==
    config.authType = "jwt"
        => \A c \in Calls :
             calls[c].pc = "mainWait"
                => \A r \in MainOutcomes(calls[c].req) :
                     IsPermissionDeniedResponse(r)
                        => PropagatedUnchanged(c, MainResume(Here(c), r), r)

\* the error (or OK) a transmission answered with r ends in
OutcomeOf(r) ==
    IF r.kind = "ok" THEN OK
    ELSE IF r.kind = "http" THEN HttpError(r.status, r.body) ELSE NetworkError

\* T is call c ended without another request, refresh or token endpoint call
EndedWithoutFurtherRequest(c, T) ==
    /\ T.l.pc = "done"
    /\ T.l.nWire = calls[c].nWire
    /\ T.l.nMain = calls[c].nMain
    /\ T.l.nRefresh = calls[c].nRefresh
    /\ T.g.endpointCalls = endpointCalls

\* C6: when the main request of a call fails with a network-level error, the
\* call sends no further request of any kind (no CSRF re-fetch, no replay, no
\* cookie re-acquisition, no token refresh) and throws that same error, for
\* every method and both auth schemes; a replay that fails this way ends the
\* call without a further request as well
C6_NetworkErrorIsFatal ==
    \A c \in Calls :
        calls[c].pc = "mainWait"
            => \A r \in MainOutcomes(calls[c].req) :
                 r.kind = "network"
                    => LET T == MainResume(Here(c), r)
                       IN /\ EndedWithoutFurtherRequest(c, T)
                          /\ T.g = Conn
                          /\ calls[c].stage = "main" => T.l.result = NetworkError

\* a call ended by a network error on its only transmission
C6_Witness ==
    \E c \in Calls :
        /\ calls[c].op = "execute"
        /\ calls[c].pc = "done"
        /\ calls[c].result = NetworkError
        /\ calls[c].nMain = 1
        /\ calls[c].nWire = 1

\* call c, under Basic auth, is re-fetching the CSRF token after a 403 whose
\* body contains "CSRF"
RefetchingAfterCsrf403(c) ==
    /\ config.authType = "basic"
    /\ calls[c].pc = "fetchWait"
    /\ calls[c].fRet = "csrfRetry"
    /\ calls[c].err.status = 403
    /\ BodyIncludes(calls[c].err.body, "CSRF")

\* T is call c replaying its request, the newly fetched token in x-csrf-token
ReplaysWithToken(c, T, token) ==
    /\ T.l.pc = "mainWait"
    /\ T.l.nMain = calls[c].nMain + 1
    /\ T.l.nMain = 2
    /\ T.l.req.kind = "main"
    /\ T.l.req.headers.csrf = token
    /\ T.g.csrfToken = token

\* the replay of the CSRF-invalid branch: whatever it is answered with is what
\* the call ends in, with no further request
CsrfReplayIsFinal ==
    \A c \in Calls :
        (config.authType = "basic" /\ calls[c].pc = "mainWait" /\ calls[c].stage = "csrfRetry")
            => \A r \in MainOutcomes(calls[c].req) :
                 LET T == MainResume(Here(c), r)
                 IN EndedWithoutFurtherRequest(c, T) /\ T.l.result = OutcomeOf(r)

\* the error fetchCsrfToken throws when its last attempt was answered with r
FetchErrorOf(r) ==
    IF r.kind = "http" THEN HttpError(r.status, r.body) ELSE PlainError(MsgCsrfFetchFailed)

\* C7 as stated: under Basic auth, a request failing with 403 and a body
\* containing "CSRF" is always replayed exactly once with the re-fetched token
\* in x-csrf-token, and the outcome of the replay is returned without further
\* retry or branching
C7_AlwaysReplayedOnce ==
    /\ \A c \in Calls :
         RefetchingAfterCsrf403(c)
            => \A r \in DiscoveryOutcomes(calls[c].req) :
                 LET T == FetchResume(Here(c), r)
                 IN T.l.pc = "fetchSleep" \/ ReplaysWithToken(c, T, r.token)
    /\ CsrfReplayIsFinal

\* C7 (amended): under Basic auth, after a 403 whose body contains "CSRF" the
\* pipeline re-fetches a CSRF token; when the re-fetch yields a token the
\* request is replayed exactly once with that token in x-csrf-token and the
\* outcome of the replay is returned without further retry or branching; when
\* the re-fetch fails the request is not replayed and the error of the
\* re-fetch is thrown
C7_ReplayedOnceIfRefetched ==
    /\ \A c \in Calls :
         RefetchingAfterCsrf403(c)
            => \A r \in DiscoveryOutcomes(calls[c].req) :
                 LET T == FetchResume(Here(c), r)
                 IN IF r.kind # "network" /\ r.token # NULL
                    THEN ReplaysWithToken(c, T, r.token)
                    ELSE \/ T.l.pc = "fetchSleep" /\ calls[c].fAttempt < CsrfRetryBudget
                         \/ /\ T.l.pc = "done"
                            /\ T.l.nMain = 1
                            /\ T.l.nWire = calls[c].nWire
                            /\ T.l.result = FetchErrorOf(r)
    /\ CsrfReplayIsFinal

\* a Basic call that got a CSRF 403, re-fetched, replayed with the new token
\* and ended in the CSRF 403 the replay was answered with
C7_Witness ==
    \E c \in Calls :
        /\ config.authType = "basic"
        /\ calls[c].pc = "done"
        /\ calls[c].stage = "csrfRetry"
        /\ calls[c].err.status = 403
        /\ BodyIncludes(calls[c].err.body, "CSRF")
        /\ calls[c].nMain = 2
        /\ calls[c].req.headers.csrf = "T2"
        /\ calls[c].result = HttpError(403, "csrf")

\* C8: over all transmissions of a request, first attempts and replays alike,
\* the pipeline never attaches a CSRF token to a GET or HEAD request, and a
\* POST/PUT/DELETE request carries the cached token whenever one is cached when
\* its headers are built (the header a caller passes itself is the subject of C9)
C8_CsrfTokenOnlyOnMutating ==
    \A c \in Calls :
        calls[c].pc = "mainWait"
            => /\ calls[c].req.method \in {"GET", "HEAD"}
                    => calls[c].req.headers.csrf \notin Tokens
               /\ (IsMutating(calls[c].req.method) /\ csrfToken # NULL)
                    => calls[c].req.headers.csrf = csrfToken

\* C9: for every request, the caller's headers never determine the outbound
\* Authorization, x-csrf-token or Cookie header, also when no CSRF token is
\* cached, when the method is GET and when the cookie jar is empty
C9_CallerNeverSetsOwnedHeaders ==
    \A c \in Calls :
        calls[c].req.kind = "main"
            => /\ calls[c].req.headers.Authorization # CALLER
               /\ calls[c].req.headers.csrf # CALLER
               /\ calls[c].req.headers.Cookie # CALLER

\* call c, under Basic auth, awaits the answer to the first transmission of a GET
AwaitingFirstGet(c) ==
    /\ config.authType = "basic"
    /\ calls[c].pc = "mainWait"
    /\ calls[c].stage = "main"
    /\ calls[c].method = "GET"

\* T is call c replaying its GET, for the second time on the wire, with the
\* cookies of the jar
ReplaysWithCookies(c, T) ==
    /\ T.l.pc = "mainWait"
    /\ T.l.nMain = 2
    /\ T.l.nWire = calls[c].nWire + 1
    /\ T.g.cookies # NULL
    /\ T.l.req.kind = "main"
    /\ T.l.req.headers.Cookie = T.g.cookies

\* the 401 answer r to the first GET of call c is handled by the 401-on-GET
\* branch: replay at once if the jar holds cookies (those of r included), else
\* one CSRF fetch for cookies
HandledByGet401(c, r) ==
    LET T == MainResume(Here(c), r)
    IN IF Ingest(Conn, r.setCookie).cookies # NULL
       THEN ReplaysWithCookies(c, T) /\ T.l.stage = "get401"
       ELSE /\ T.l.pc = "fetchWait"
            /\ T.l.fRet = "get401"
            /\ T.l.nMain = 1

\* the CSRF fetch of the 401-on-GET branch: a replay only with a token and
\* cookies obtained, else the original 401; and the replay is final
Get401FetchAndReplay ==
    \A c \in Calls :
        /\ (config.authType = "basic" /\ calls[c].pc = "fetchWait" /\ calls[c].fRet = "get401")
              => \A r \in DiscoveryOutcomes(calls[c].req) :
                   LET T == FetchResume(Here(c), r)
                   IN IF r.kind # "network" /\ r.token # NULL /\ T.g.cookies # NULL
                      THEN ReplaysWithCookies(c, T)
                      ELSE \/ T.l.pc = "fetchSleep" /\ calls[c].fAttempt < Get401Budget
                           \/ /\ T.l.pc = "done"
                              /\ T.l.nMain = 1
                              /\ T.l.nWire = calls[c].nWire
                              /\ T.l.result = calls[c].err
                              /\ calls[c].err.status = 401
        /\ (config.authType = "basic" /\ calls[c].pc = "mainWait"
              /\ calls[c].stage \in {"get401", "get401Fetched"})
              => \A r \in MainOutcomes(calls[c].req) :
                   LET T == MainResume(Here(c), r)
                   IN /\ EndedWithoutFurtherRequest(c, T)
                      /\ T.l.result = IF r.kind = "ok" THEN OK
                                      ELSE IF calls[c].stage = "get401" THEN OutcomeOf(r)
                                      ELSE calls[c].err
        /\ (config.authType = "basic" /\ calls[c].method = "GET") => calls[c].nMain <= 2

\* C10 as stated: under Basic auth every 401 on a GET is handled by the
\* 401-on-GET branch (replay with the known cookies, else one CSRF fetch for
\* cookies and a replay only if cookies were obtained, else the original 401),
\* and the GET is never transmitted more than twice
C10_Every401OnGet ==
    /\ \A c \in Calls :
         AwaitingFirstGet(c)
            => \A r \in MainOutcomes(calls[c].req) :
                 (r.kind = "http" /\ r.status = 401) => HandledByGet401(c, r)
    /\ Get401FetchAndReplay

\* C10 (amended): the same, for the 401 answers whose body does not contain
\* "CSRF token"; a body containing it selects the CSRF-invalid branch first
C10_401OnGetWithoutCsrfBody ==
    /\ \A c \in Calls :
         AwaitingFirstGet(c)
            => \A r \in MainOutcomes(calls[c].req) :
                 (r.kind = "http" /\ r.status = 401 /\ ~BodyIncludes(r.body, "CSRF token"))
                    => HandledByGet401(c, r)
    /\ Get401FetchAndReplay

\* a Basic GET answered 401 with no cookies known, whose CSRF fetch obtained
\* cookies and whose replay succeeded
C10_Witness ==
    \E c \in Calls :
        /\ config.authType = "basic"
        /\ calls[c].method = "GET"
        /\ calls[c].pc = "done"
        /\ calls[c].stage = "get401Fetched"
        /\ calls[c].err.status = 401
        /\ calls[c].nMain = 2
        /\ calls[c].result = OK

\* call c is a mutating request on a JWT connection whose first transmission
\* was answered with a non-permission 401/403 and which awaits the refresh
AwaitingRefreshForMutating(c) ==
    /\ config.authType = "jwt"
    /\ calls[c].op = "execute"
    /\ IsMutating(calls[c].method)
    /\ calls[c].pc = "refreshWait"
    /\ calls[c].rRet = "exec"

\* T is call c right after its refresh succeeded: new bearer token, CSRF token
\* and cookies cleared, no replay yet, a CSRF fetch under the new bearer token
\* on the wire
ClearedAndFetching(c, T) ==
    /\ T.g.csrfToken = NULL
    /\ T.g.cookies = NULL
    /\ T.g.cookieStore = <<>>
    /\ T.l.nMain = calls[c].nMain
    /\ T.l.pc = "fetchWait"
    /\ T.l.req.kind = "discovery"
    /\ T.l.req.headers.Authorization = buildAuthorizationHeader("jwt", T.g.currentToken)
    /\ T.l.req.headers.Cookie = ABSENT

\* the state of call c when its refreshToken() / tryRefreshToken() has returned
\* after a successful refresh
RefreshReturned(c) ==
    IF config.storage
    THEN ClearResume(RefreshResume(Here(c), TRUE))
    ELSE RefreshResume(Here(c), TRUE)

\* call c is a mutating request that was refreshed for and is fetching a CSRF
\* token before its replay
FetchingBeforeReplay(c) ==
    /\ config.authType = "jwt"
    /\ calls[c].op = "execute"
    /\ IsMutating(calls[c].method)
    /\ calls[c].pc = "fetchWait"
    /\ calls[c].rRet = "exec"
    /\ calls[c].nMain = 1

\* the refresh step of a mutating request clears the session and starts the
\* CSRF fetch; the replay that follows the fetch carries the current (new)
\* bearer token
RefreshThenFetchThenReplay ==
    \A c \in Calls :
        /\ AwaitingRefreshForMutating(c)
              => /\ RefreshReturned(c).g.currentToken = currentToken + 1
                 /\ ClearedAndFetching(c, RefreshReturned(c))
        /\ FetchingBeforeReplay(c)
              => /\ currentToken >= 1
                 /\ \A r \in DiscoveryOutcomes(calls[c].req) :
                      LET T == FetchResume(Here(c), r)
                      IN T.l.pc = "mainWait"
                            => /\ T.l.nMain = 2
                               /\ T.l.req.headers.Authorization =
                                      buildAuthorizationHeader("jwt", T.g.currentToken)

\* C11 as stated: on a JWT connection that can refresh, after a mutating
\* request got a 401 and the refresh succeeded, the order within the call is:
\* refresh, CSRF token and cookies cleared, a CSRF token fetched under the new
\* bearer token, then the replay, which always carries the new bearer token
\* and the newly fetched CSRF token
C11_ReplayCarriesFetchedToken ==
    /\ RefreshThenFetchThenReplay
    /\ \A c \in Calls :
         FetchingBeforeReplay(c)
            => \A r \in DiscoveryOutcomes(calls[c].req) :
                 LET T == FetchResume(Here(c), r)
                 IN T.l.pc = "mainWait"
                       => /\ r.kind # "network" /\ r.token # NULL
                          /\ T.l.req.headers.csrf = r.token

\* C11 (amended): the same order; the replay carries the new bearer token and,
\* when the CSRF fetch yielded a token, that token; when the fetch failed the
\* replay still goes out, without a CSRF token of the pipeline; in no case
\* with the CSRF token cached before the refresh
C11_ReplayAfterClearAndFetch ==
    /\ RefreshThenFetchThenReplay
    /\ \A c \in Calls :
         FetchingBeforeReplay(c)
            => \A r \in DiscoveryOutcomes(calls[c].req) :
                 LET T == FetchResume(Here(c), r)
                 IN T.l.pc = "mainWait"
                       => IF r.kind # "network" /\ r.token # NULL
                          THEN T.l.req.headers.csrf = r.token /\ T.g.csrfToken = r.token
                          ELSE T.l.req.headers.csrf \notin Tokens /\ T.g.csrfToken = NULL

\* a mutating JWT request that held CSRF token T1, got a 401, was refreshed
\* for once, fetched T2 and was replayed with the new bearer token and T2
C11_Witness ==
    \E c \in Calls :
        /\ config.authType = "jwt"
        /\ calls[c].op = "execute"
        /\ calls[c].method = "POST"
        /\ calls[c].pc = "done"
        /\ calls[c].result = OK
        /\ calls[c].nRefresh = 1
        /\ calls[c].nMain = 2
        /\ calls[c].req.headers.Authorization = buildAuthorizationHeader("jwt", 1)
        /\ calls[c].req.headers.csrf = "T2"

\* the terminal credential-expired errors of the JWT variant
IsTerminalAuthError(e) ==
    e.kind = "plain" /\ e.msg \in {MsgExpired, MsgExpiredNoRefresh, MsgRefreshFailed}

\* a 401/403 answer without a permission-denied marker
IsExpiredResponse(r) ==
    r.kind = "http" /\ r.status \in {401, 403} /\ ~BodyIncludes(r.body, "No authorization")

C13_SecondFailureIsTerminal ==
    config.authType = "jwt"
        => \A c \in Calls :
             (calls[c].op = "execute" /\ calls[c].pc = "mainWait"
                /\ calls[c].phase = "replay" /\ calls[c].nRefresh >= 1)
                => \A r \in MainOutcomes(calls[c].req) :
                     IsExpiredResponse(r)
                        => LET T == MainResume(Here(c), r)
                           IN T.l.pc = "done" /\ IsTerminalAuthError(T.l.result)

\* the calls inside a refreshToken() that raised the flag: at the token
\* endpoint, or at the clearing of the stored session state after it
InsideRefresh == {c \in Calls : calls[c].pc \in {"refreshWait", "clearWait"}}

\* every exit of refreshToken() leaves the flag down: the token endpoint
\* failed, the refresh succeeded, the clearing of the stored session state
\* ended with or without an error
FlagDownOnEveryExit ==
    \A c \in Calls :
        /\ calls[c].pc = "refreshWait"
              => /\ ~RefreshResume(Here(c), FALSE).g.tokenRefreshInProgress
                 /\ ~RefreshReturned(c).g.tokenRefreshInProgress
        /\ calls[c].pc = "clearWait"
              => ~ClearResume(Here(c)).g.tokenRefreshInProgress

\* C14 as stated: the in-flight marker is cleared on every exit of the
\* refresh, so that it is set only while a token endpoint call of this
\* instance is outstanding and is never left set after the refresh finished
C14_SetOnlyDuringEndpointCall ==
    config.shape = "legacy"
        => /\ FlagDownOnEveryExit
           /\ tokenRefreshInProgress <=> RefreshOutstanding # {}

\* C14 (amended): the marker is cleared on every exit of the refresh, so that
\* it is set exactly while a refresh of this instance is running (its token
\* endpoint call and, with a session storage, the clearing of the stored
\* session state that follows it) and is never left set after it finished
C14_SetOnlyDuringRefresh ==
    config.shape = "legacy"
        => /\ FlagDownOnEveryExit
           /\ tokenRefreshInProgress <=> InsideRefresh # {}
           /\ Cardinality(InsideRefresh) <= 1

\* one call clears the stored session state after its token endpoint call
\* while the other call waits in the loop on the flag
C14_Witness ==
    /\ config.shape = "legacy"
    /\ tokenRefreshInProgress
    /\ \E c, d \in Calls :
         /\ calls[c].pc = "clearWait"
         /\ calls[d].pc = "refreshPoll"
         /\ currentToken = 1

-----------------------------------------------------------------------------
(* The cookie jar and the session snapshot *)

\* the "name=value" pairs of a cookie map joined with "; ", in map order
RECURSIVE JoinNameValue(_)
JoinNameValue(store) ==
    IF store = <<>> THEN ""
    ELSE LET one == Head(store).name \o "=" \o Head(store).value
         IN IF Tail(store) = <<>> THEN one
            ELSE one \o "; " \o JoinNameValue(Tail(store))

\* the Cookie header of the next request of a caller that passes no headers
CookieSentNext == NextRequestHeaders(Conn, "GET").Cookie

\* the Cookie header is the join of the map, and absent with an empty map
CookieIsJoinOfMap ==
    CookieSentNext = IF cookieStore = <<>> THEN ABSENT ELSE JoinNameValue(cookieStore)

NamesIn(entries) == {entries[i].name : i \in 1..Len(entries)} \ {""}

ValueOf(store, n) == store[CHOOSE i \in 1..Len(store) : store[i].name = n].value

\* the value of the last entry of the list for the name n
LastWritten(entries, n) ==
    LET I == {i \in 1..Len(entries) : entries[i].name = n}
    IN entries[CHOOSE i \in I : \A j \in I : j <= i].value

\* C15: whenever a response is ingested by a connection whose Cookie header was
\* the "name=value" join of its cookie map, every name of the response maps to
\* the value of its last Set-Cookie entry (an empty value included) and the
\* Cookie header sent next is again the "name=value" join of the map, in map
\* order; with an empty map no Cookie header is sent.
C15_CookieHeaderIsJoinOfLastValues ==
    [][\A sc \in SetCookieLists :
         (IngestResponse /\ CookieIsJoinOfMap /\ cookieStore' = IngestEntries(cookieStore, sc))
            => /\ \A n \in NamesIn(sc) : ValueOf(cookieStore', n) = LastWritten(sc, n)
               /\ CookieIsJoinOfMap']_vars

\* C16: after any sequence of cookie ingestions, resets, setSessionState calls
\* with full or partial snapshots and credential refreshes, the raw cookie
\* header string is the rendering of the cookie map, and null when the map is
\* empty.
C16_StringIsRenderingOfMap ==
    cookies = IF cookieStore = <<>> THEN NULL ELSE RenderCookies(cookieStore)

\* the second instance after B.setSessionState(A.getSessionState())
PeerAfterTransfer == setSessionState(peer, getSessionState(Conn))

\* C17: in every reachable state of connection A and of a second instance B of
\* the same configuration, after B.setSessionState(A.getSessionState()) the
\* next request of B carries the same Cookie and x-csrf-token headers as the
\* next request of A with the same method, also when A holds no cookies and no
\* CSRF token.
C17_TransferReproducesHeaders ==
    \A method \in Methods :
        /\ NextRequestHeaders(PeerAfterTransfer, method).Cookie
               = NextRequestHeaders(Conn, method).Cookie
        /\ NextRequestHeaders(PeerAfterTransfer, method).csrf
               = NextRequestHeaders(Conn, method).csrf

-----------------------------------------------------------------------------
(* reset() *)

\* the second instance holds a session copied from this connection after this
\* connection ingested two cookies (the copy lists the array-index name first):
\* this connection has used its transport
PeerHoldsCopiedJar ==
    /\ peer.cookies = "SAP_SESSIONID=v; 1=v"
    /\ Len(peer.cookieStore) = 2
    /\ peer.cookieStore[1].name = "1"

\* C18: from any state, a reset() leaves the CSRF token null, the cookie map
\* and the cookie string empty and the transport handle released, and a second
\* reset() right after it changes nothing.
C18_ResetIsIdempotent ==
    LET once == reset(Conn)
    IN /\ once.csrfToken = NULL
       /\ once.cookies = NULL
       /\ once.cookieStore = <<>>
       /\ ~once.axiosInstance
       /\ reset(once) = once

\* a Basic connection that ingested cookies over its transport and was reset
C18_Witness ==
    /\ config.authType = "basic"
    /\ PeerHoldsCopiedJar
    /\ ~axiosInstance
    /\ Conn = reset(Conn)

\* C19: a reset() step changes nothing but the CSRF token, the cookie map, the
\* cookie string and the transport handle: the configuration, the current
\* bearer token, the session id and the session mode are as before.
C19_ResetKeepsConfiguration ==
    [][Reset => /\ config' = config
                /\ currentToken' = currentToken
                /\ session' = session
                /\ UNCHANGED <<tokenRefreshInProgress, endpointCalls, calls, env, peer>>]_vars

\* a JWT connection with a refreshed bearer token and a stateful session that
\* ingested cookies over its transport and was reset
C19_Witness ==
    /\ config.shape = "injected"
    /\ currentToken > 0
    /\ session.sessionMode = "stateful"
    /\ PeerHoldsCopiedJar
    /\ ~axiosInstance
    /\ Conn = reset(Conn)

-----------------------------------------------------------------------------
(* connect() under Basic auth *)

\* C20: a connect() on a Basic connection does nothing but fetch the CSRF
\* token, and whatever the discovery fetch ends with (a token, an HTTP error
\* status, a response without token header, a network error on every attempt)
\* it returns normally; it never raises.
C20_BasicConnectNeverRaises ==
    \A c \in Calls :
        (config.authType = "basic" /\ calls[c].op = "connect") =>
            /\ calls[c].pc \in {"fetchWait", "fetchSleep", "done"}
            /\ calls[c].pc = "done" => calls[c].result = OK
            /\ calls[c].pc = "fetchWait" =>
                 \A r \in DiscoveryOutcomes(calls[c].req) :
                     LET T == FetchResume(Here(c), r)
                     IN T.l.pc = "done" => T.l.result = OK

\* a Basic connect() returned after every attempt of the discovery fetch failed
C20_Witness ==
    \E c \in Calls :
        /\ config.authType = "basic"
        /\ calls[c].op = "connect"
        /\ calls[c].pc = "done"
        /\ calls[c].result = OK
        /\ calls[c].fAttempt = ConnectBudget
        /\ calls[c].nWire = ConnectBudget + 1
        /\ csrfToken = NULL

-----------------------------------------------------------------------------
(* Session headers and session id *)

\* call c has a main request on the wire or answered
HasMainRequest(c) == calls[c].op = "execute" /\ calls[c].req.kind = "main"

\* the request was built in the session mode and with the session id of the
\* current state: its first transmission is on the wire
BuiltInThisState(c) == calls[c].pc = "mainWait" /\ calls[c].nMain = 1

\* C21: every main request built by makeAdtRequest carries
\* sap-adt-connection-id equal to the session id of the connection, in both
\* session modes, and carries the session-type, request-id and profiling
\* headers exactly if the session mode was stateful when its headers were
\* built.
C21_SessionHeadersFollowMode ==
    [][\A c \in Calls :
         (HasMainRequest(c) /\ BuiltInThisState(c))' /\ ~(HasMainRequest(c) /\ BuiltInThisState(c))
            => LET h == calls'[c].req.headers
               IN /\ h.connectionId = session.sessionId
                  /\ (h.sessionType # ABSENT) <=> (session.sessionMode = "stateful")
                  /\ (h.requestId # ABSENT) <=> (session.sessionMode = "stateful")
                  /\ (h.profiling # ABSENT) <=> (session.sessionMode = "stateful")]_vars

\* C22: the session id of a connection is the one fixed at construction after
\* every step of every operation.
C22_SessionIdIsFixed ==
    [][session'.sessionId = session.sessionId]_vars

-----------------------------------------------------------------------------
(* Two instances *)

\* what the second instance uses for its requests
PeerUses ==
    [Authorization |-> PeerAuthorization, csrfToken |-> peer.csrfToken,
     cookies |-> peer.cookies, cookieStore |-> peer.cookieStore]

\* an operation on this connection alone
OperationOnThisInstance ==
    \/ IngestResponse
    \/ CacheToken
    \/ Reset
    \/ SetSessionState
    \/ CredentialRefresh
    \/ SetSessionType

\* C23: no operation on one instance (ingesting a response, caching a token,
\* reset, setSessionState, credential refresh, setSessionType) changes the
\* bearer token, the CSRF token or the cookies used by a second instance
\* created from the same configuration object.
C23_InstancesShareNothing ==
    [][OperationOnThisInstance => PeerUses' = PeerUses]_vars

-----------------------------------------------------------------------------
(* The first GET of a connection *)

\* call c is a GET waiting for the answer to its first request
FirstGetOnWire(c) ==
    /\ calls[c].op = "execute"
    /\ calls[c].method = "GET"
    /\ calls[c].nWire = 1
    /\ calls[c].pc \in {"mainWait", "fetchWait"}

\* every named Set-Cookie entry of the list is in the cookie map
InJar(store, setCookie) ==
    \A i \in 1..Len(setCookie) :
        setCookie[i].name # "" =>
            \E j \in 1..Len(store) : store[j].name = setCookie[i].name

\* the first request of a GET is the request itself, not a discovery fetch;
\* with headers given, on a Basic connection without cached token and cookies
\* it carries no x-csrf-token and no Cookie header, and the Set-Cookie entries
\* of its answer are in the jar
FirstGetGoesOutBare(c) ==
    /\ calls[c].req.kind = "main"
    /\ calls[c].pc = "mainWait"
    /\ (config.authType = "basic" /\ csrfToken = NULL /\ cookies = NULL) =>
          /\ calls[c].req.headers.csrf = ABSENT
          /\ calls[c].req.headers.Cookie = ABSENT
          /\ \A r \in MainOutcomes(calls[c].req) :
                InJar(MainResume(Here(c), r).g.cookieStore, r.setCookie)

\* C24: a GET never starts with the CSRF discovery fetch, whatever is cached;
\* on a Basic connection without cached CSRF token and without cookies the
\* first GET is the first request on the wire, carries no x-csrf-token and no
\* Cookie header, and every Set-Cookie of its response is in the jar.
C24_FirstGetWithoutDiscovery ==
    \A c \in Calls : FirstGetOnWire(c) => FirstGetGoesOutBare(c)

-----------------------------------------------------------------------------
(* The bearer token in the Authorization header *)

\* the step builds the headers of a request of call c: a discovery request or
\* the first transmission of a main request (a retry inside base
\* makeAdtRequest sends the headers built before)
BuildsHeaders(c) ==
    /\ calls'[c].nWire = calls[c].nWire + 1
    /\ calls'[c].req.kind = "discovery" \/ calls'[c].stage = "main"

\* C25: the bearer token of a JWT connection is the one of the configuration
\* until a refresh succeeds and changes only when a refresh succeeds, and
\* every request whose headers are built carries "Bearer" with the token of
\* the latest successful refresh (of the configuration, before the first).
C25_BearerIsLatestToken ==
    [][/\ currentToken' # currentToken =>
             /\ currentToken' = currentToken + 1
             /\ \E c \in Calls : calls[c].pc \in {"refreshWait", "clearWait"}
       /\ \A c \in Calls :
             BuildsHeaders(c) =>
                 calls'[c].req.headers.Authorization = "Bearer " \o Jwt(currentToken')]_vars

\* a request built after the second successful refresh is on the wire
C25_Witness ==
    \E c \in Calls :
        /\ currentToken = 2
        /\ calls[c].pc \in {"mainWait", "fetchWait"}
        /\ calls[c].req.headers.Authorization = "Bearer " \o Jwt(2)

-----------------------------------------------------------------------------
(* The token endpoint exchange *)

\* C26: when the token endpoint answers a refresh with an access_token, the
\* bearer token becomes that access_token and the stored refresh token becomes
\* the returned refresh_token if there is one and stays as it was otherwise;
\* an answer without access_token leaves both tokens as they were, and the
\* refresh has failed: the in-flight flag is lowered and nothing is reset.
C26_TokensFollowEndpointAnswer ==
    [][\A c \in Calls : \A resp \in TokenResponses(currentToken) :
         (calls[c].pc = "refreshWait" /\ RefreshExchangeWith(c, resp)) =>
            IF resp.kind = "ok" /\ resp.hasAccessToken
            THEN /\ currentToken' = resp.access_token
                 /\ config'.refreshToken =
                        IF resp.refresh_token \in RefreshTokens THEN resp.refresh_token
                        ELSE config.refreshToken
            ELSE /\ currentToken' = currentToken
                 /\ config'.refreshToken = config.refreshToken
                 /\ ~tokenRefreshInProgress'
                 /\ <<csrfToken, cookies, cookieStore>>' = <<csrfToken, cookies, cookieStore>>]_vars

\* one refresh succeeded with an answer that carried no refresh_token: the
\* bearer token is the returned one, the refresh token the one of the
\* configuration
C26_Witness ==
    /\ currentToken = 1
    /\ config.refreshToken = "R0"
    /\ \E c \in Calls : calls[c].nRefresh = 1 /\ calls[c].pc \notin {"refreshWait", "idle"}

-----------------------------------------------------------------------------
(* Construction *)

\* a configuration the variant accepts: a parsable URL, and for Basic the auth
\* type "basic" with username, password and client, for JWT the auth type
\* "jwt" with a token
ValidFor(variant, raw) ==
    /\ UrlParses(raw.url)
    /\ \/ /\ variant = "basic"
          /\ raw.authType = "basic"
          /\ ~Missing(raw.username) /\ ~Missing(raw.password) /\ ~Missing(raw.client)
       \/ /\ variant = "jwt"
          /\ raw.authType = "jwt"
          /\ ~Missing(raw.jwtToken)

\* the configuration of the caller is valid for the way the connection is made
ValidConfiguration ==
    CASE env.via = "BaseAbapConnection" -> ValidFor("basic", env.raw)
      [] env.via = "JwtAbapConnection"  -> ValidFor("jwt", env.raw)
      [] OTHER -> ValidFor("basic", env.raw) \/ ValidFor("jwt", env.raw)

\* nothing was sent
NoNetworkCall ==
    /\ ~axiosInstance
    /\ endpointCalls = 0
    /\ \A c \in Calls : calls[c].nWire = 0 /\ calls[c].pc = "idle"

\* C27: the constructor throws, with no network call made, whenever the
\* configuration is invalid (Basic without username, password or client, JWT
\* without token, an auth type that is not the variant's or not supported, a
\* URL that does not parse), and a connection exists only for a valid one.
C27_InvalidConfigurationThrows ==
    /\ created.state = "connection" => ValidConfiguration
    /\ (created.state # "none" /\ ~ValidConfiguration) =>
          created.state = "error" /\ NoNetworkCall
    /\ created.state # "connection" => NoNetworkCall

\* the constructor threw for a Basic configuration that lacks only the client
C27_Witness ==
    /\ created.state = "error"
    /\ env.raw.authType = "basic"
    /\ env.raw.username = "user" /\ env.raw.password = "pass"
    /\ UrlParses(env.raw.url)
    /\ env.raw.client = ABSENT

-----------------------------------------------------------------------------
(* Responses to requests sent with a previous bearer token *)

\* call c waits for the answer to a request that carries a bearer token
\* replaced since
AwaitsStaleAnswer(c) ==
    /\ calls[c].pc \in {"mainWait", "fetchWait"}
    /\ calls[c].req.headers.Authorization # "Bearer " \o Jwt(currentToken)

\* the jar holds the session cookie the backend ties to the credentials auth
HoldsSessionOf(store, auth) ==
    \E i \in 1..Len(store) :
        store[i].name = "SAP_SESSIONID" /\ store[i].value = SessionOf(auth)

\* C28: when the answer to a request sent with a previous bearer token arrives
\* after the refresh, with the jar free of the cookies of that token, the
\* cookies of that answer are not added to the jar.
C28_StaleAnswerStaysOut ==
    [][\A c \in Calls :
         (/\ AwaitsStaleAnswer(c)
          /\ calls'[c] # calls[c]
          /\ ~HoldsSessionOf(cookieStore, calls[c].req.headers.Authorization))
            => ~HoldsSessionOf(cookieStore', calls[c].req.headers.Authorization)]_vars

-----------------------------------------------------------------------------
(* Calls waiting for a refresh in flight *)

\* call c leaves the wait loop of refreshToken in this step
LeavesWaitLoop(c) == calls[c].pc = "refreshPoll" /\ calls'[c].pc # "refreshPoll"

\* no refresh of this connection has succeeded: the refresh a call waited for
\* has failed
EveryRefreshFailed == currentToken = 0

\* C29: a call that waited for a refresh in flight which failed ends with the
\* terminal re-authenticate error when it resumes, and sends no request with
\* the old token.
C29_WaiterSeesFailure ==
    [][\A c \in Calls :
         (LeavesWaitLoop(c) /\ EveryRefreshFailed) =>
            /\ calls'[c].pc = "done"
            /\ IsTerminalAuthError(calls'[c].result)
            /\ calls'[c].nWire = calls[c].nWire]_vars

\* call c is in the wait loop of refreshToken
Waiting(c) == calls[c].pc = "refreshPoll"

\* the token endpoint call of a refresh is pending
EndpointCallPending == \E d \in Calls : calls[d].pc = "refreshWait"

\* a refresh is running: its token endpoint call or its clearSessionState()
RefreshRunning == \E d \in Calls : calls[d].pc \in {"refreshWait", "clearWait"}

-----------------------------------------------------------------------------
(* Termination of connect() *)

\* call c is a connect() of the caller
IsConnectCall(c) == calls[c].op = "connect"

\* C31: connect() on a JWT connection ends after a bounded number of discovery
\* requests and refresh calls, even when every discovery request is answered
\* with a non-permission 401 and every refresh succeeds: one connect() never
\* consumes every token the token endpoint is prepared to hand out.
C31_ConnectEndsByItself ==
    \A c \in Calls :
        (IsConnectCall(c) /\ config.authType = "jwt") => currentToken < MaxGen

-----------------------------------------------------------------------------
(* A refresh that fails *)

\* the refresh call c awaits comes back as a failure in this step: the locals
\* of c go where the failure path takes them
RefreshFailsFor(c) ==
    /\ calls[c].pc = "refreshWait"
    /\ calls'[c] = RefreshFailed(Here(c)).l

\* C32: a failed refresh changes no session or credential state: the bearer
\* token, the refresh token, the cached CSRF token and the cookie jar are
\* after the failure what they were while the refresh was awaited (with one
\* call on the connection: what they were when the refresh started).
C32_FailedRefreshChangesNothing ==
    [][\A c \in Calls :
         RefreshFailsFor(c) =>
            /\ currentToken' = currentToken
            /\ config'.refreshToken = config.refreshToken
            /\ csrfToken' = csrfToken
            /\ cookies' = cookies
            /\ cookieStore' = cookieStore]_vars

\* a call ended with the terminal error of a failed refresh, on a connection
\* that still holds its CSRF token, its cookie and its first bearer token
C32_Witness ==
    \E c \in Calls :
        /\ calls[c].pc = "done"
        /\ calls[c].nRefresh = 1
        /\ IsTerminalAuthError(calls[c].result)
        /\ currentToken = 0
        /\ config.refreshToken = "R0"
        /\ csrfToken = "T1"
        /\ cookieStore # <<>>

-----------------------------------------------------------------------------
(* The CSRF fetch *)

\* C33: a network-level failure is never retried: after a discovery attempt
\* failed without an HTTP response, the CSRF fetch does not go to sleep for
\* another attempt.
C33_NetworkErrorEndsCsrfFetch ==
    \A c \in Calls :
        calls[c].pc = "fetchWait"
            => \A r \in DiscoveryOutcomes(calls[c].req) :
                 r.kind = "network" => FetchResume(Here(c), r).l.pc # "fetchSleep"

-----------------------------------------------------------------------------
(* The CSRF-invalid branch *)

\* T is the call in the CSRF-invalid branch: re-fetching the token with the
\* budget of that branch
InCsrfInvalidBranch(T) ==
    /\ T.l.pc = "fetchWait"
    /\ T.l.fRet = "csrfRetry"
    /\ T.l.fBudget = CsrfRetryBudget

\* the condition of the CSRF-invalid branch, for the error response r to a
\* request with the given method, the token cached when the error is handled
CsrfInvalid(r, method, token) ==
    \/ r.status = 403 /\ r.body \in {"csrf", "csrfToken"}
    \/ r.body = "csrfToken"
    \/ r.status = 401 /\ method \in {"POST", "PUT", "DELETE"} /\ token = NULL

\* C34: the pipeline takes the CSRF-invalid branch on an error response
\* exactly when the auth scheme is not JWT and (a) the status is 403 and the
\* body contains "CSRF", or (b) the body contains "CSRF token", or (c) the
\* status is 401, the method is POST/PUT/DELETE and no CSRF token is cached;
\* on a JWT connection never.
C34_CsrfInvalidBranchCondition ==
    \A c \in Calls :
        (calls[c].pc = "mainWait" /\ calls[c].stage = "main")
            => \A r \in MainOutcomes(calls[c].req) :
                 r.kind = "http"
                    => (InCsrfInvalidBranch(MainResume(Here(c), r))
                          <=> /\ config.authType # "jwt"
                              /\ CsrfInvalid(r, calls[c].method, csrfToken))

\* a Basic call in the CSRF-invalid branch after a 500 whose body mentions
\* "CSRF token"
C34_Witness ==
    \E c \in Calls :
        /\ config.authType = "basic"
        /\ InCsrfInvalidBranch(Here(c))
        /\ calls[c].err.status = 500
        /\ calls[c].err.body = "csrfToken"

-----------------------------------------------------------------------------
(* The upfront CSRF fetch *)

\* call c is in the upfront fetch of a mutating request
InUpfrontFetch(c) == calls[c].fRet = "ensure" /\ IsMutating(calls[c].method)

\* T is call c with its main request sent for the first time in this run of
\* the pipeline, nothing decided yet and no error kept
MainSentAfterFetch(c, T) ==
    /\ T.l.pc = "mainWait"
    /\ T.l.stage = "main"
    /\ T.l.req.kind = "main"
    /\ T.l.nMain = calls[c].nMain + 1
    /\ T.l.result = NoError
    /\ T.l.err = calls[c].err

\* C35: for POST/PUT/DELETE without a cached CSRF token, a failure of the
\* upfront CSRF fetch (an HTTP error, a response without the token header, a
\* network error, on the last attempt; or the terminal error of a failed
\* refresh inside the fetch) is swallowed: the main request is sent, without
\* a cached token, and nothing of the call is decided yet.
C35_UpfrontFetchFailureIsSwallowed ==
    \A c \in Calls :
        InUpfrontFetch(c) =>
            /\ calls[c].pc = "fetchWait" =>
                 \A r \in DiscoveryOutcomes(calls[c].req) :
                    (r.kind = "network" \/ r.token = NULL) =>
                        LET T == FetchResume(Here(c), r)
                        IN \/ T.l.pc \in {"fetchSleep", "refreshWait"}
                           \/ MainSentAfterFetch(c, T) /\ T.g.csrfToken = NULL
            /\ (calls[c].pc = "refreshWait" /\ calls[c].rRet = "fetch") =>
                 LET T == RefreshResume(Here(c), FALSE)
                 IN MainSentAfterFetch(c, T) /\ T.g.csrfToken = NULL

\* a POST on the wire without a CSRF token after all attempts of the upfront
\* fetch were used up
C35_Witness ==
    \E c \in Calls :
        /\ calls[c].method = "POST"
        /\ calls[c].pc = "mainWait"
        /\ calls[c].nMain = 1
        /\ calls[c].nWire = RETRY_COUNT + 2
        /\ calls[c].fRet = "ensure"
        /\ calls[c].req.headers.csrf = ABSENT
        /\ csrfToken = NULL

-----------------------------------------------------------------------------
(* Termination of the CSRF fetch *)

\* call c is inside the attempt loop of fetchCsrfToken
InFetchLoop(c) == calls[c].pc \in {"fetchWait", "fetchSleep"}

\* the loop of call c is within its budget: attempt <= retryCount, and a
\* further attempt is scheduled only while attempt < retryCount
WithinBudget(c) ==
    /\ calls[c].fAttempt <= calls[c].fBudget
    /\ calls[c].pc = "fetchSleep" => calls[c].fAttempt < calls[c].fBudget

\* a connect() under Basic auth is one base fetch with budget ConnectBudget:
\* its requests are the discovery requests of that fetch
OneFetchOfConnect(c) ==
    (IsConnectCall(c) /\ config.authType = "basic")
        => calls[c].nWire <= ConnectBudget + 1

\* C36: a base CSRF fetch with budget retryCount ends, with a token or an
\* error, after at most retryCount + 1 discovery requests, whatever the
\* backend answers: its loop stays within the budget and the call always
\* leaves the loop.
C36_BaseFetchTerminates ==
    /\ [](\A c \in Calls : WithinBudget(c) /\ OneFetchOfConnect(c))
    /\ \A c \in Calls : InFetchLoop(c) ~> ~InFetchLoop(c)

\* a connect() under Basic auth that ended after all ConnectBudget + 1
\* discovery requests
C36_Witness ==
    \E c \in Calls :
        /\ IsConnectCall(c)
        /\ config.authType = "basic"
        /\ calls[c].pc = "done"
        /\ calls[c].fAttempt = ConnectBudget
        /\ calls[c].nWire = ConnectBudget + 1

-----------------------------------------------------------------------------
(* Budgets of the CSRF fetches *)

\* the discovery attempts the fetch of call c has made so far
AttemptsMade(c) == calls[c].fAttempt + 1

\* call c is in the fetch that caller ret started: it has made at most
\* `attempts` attempts, and sleeps `delay` ms before a further one
FetchKeeps(c, ret, attempts, delay) ==
    (InFetchLoop(c) /\ calls[c].fRet = ret) =>
        /\ AttemptsMade(c) <= attempts
        /\ calls[c].pc = "fetchSleep" => calls[c].fDelay = delay

\* C37: the CSRF re-fetch of the CSRF-invalid branch makes at most 5
\* discovery attempts, 2 s apart, and the upfront fetch of step 1 at most 3
\* attempts, 1 s apart.
C37_FiveAndThreeAttempts ==
    \A c \in Calls :
        /\ FetchKeeps(c, "csrfRetry", 5, 2000)
        /\ FetchKeeps(c, "ensure", 3, 1000)

\* C37, as the code has it: the numbers passed are retry counts, so the
\* re-fetch of the CSRF-invalid branch makes at most 5 + 1 = 6 discovery
\* attempts, 2 s apart, and the upfront fetch of step 1 at most 3 + 1 = 4
\* attempts, 1 s apart.
C37_BudgetPlusOneAttempts ==
    \A c \in Calls :
        /\ FetchKeeps(c, "csrfRetry", CsrfRetryBudget + 1, 2000)
        /\ FetchKeeps(c, "ensure", RETRY_COUNT + 1, 1000)

\* the re-fetch of the CSRF-invalid branch awaits the answer to its sixth
\* attempt, after an upfront fetch that used four
C37_Witness ==
    \E c \in Calls :
        /\ calls[c].pc = "fetchWait"
        /\ calls[c].fRet = "csrfRetry"
        /\ AttemptsMade(c) = 6
        /\ calls[c].fDelay = 2000
        /\ calls[c].nWire = 4 + 1 + 6

-----------------------------------------------------------------------------
(* What a CSRF fetch returns *)

\* the response r carries the x-csrf-token header
CarriesToken(r) == r.kind # "network" /\ r.token # NULL

\* C38: a CSRF fetch returns a token exactly when an attempt gets a response
\* carrying the x-csrf-token header, a 405 included, and it returns the token
\* of that response (every caller caches what the fetch returned); a response
\* without the header is never a success: the fetch sleeps for another
\* attempt while attempt < retryCount, else it ends without a token.
C38_TokenIffHeader ==
    \A c \in Calls :
        calls[c].pc = "fetchWait" =>
            \A r \in DiscoveryOutcomes(calls[c].req) :
                LET T == FetchResume(Here(c), r)
                IN IF CarriesToken(r)
                   THEN /\ T.g.csrfToken = r.token
                        /\ T.l.pc \notin {"fetchWait", "fetchSleep"}
                   ELSE /\ T.g.csrfToken = csrfToken
                        /\ T.l.pc = "fetchSleep" <=> calls[c].fAttempt < calls[c].fBudget
                        /\ T.l.pc = "fetchSleep" => T.l.fAttempt = calls[c].fAttempt

\* a connect() that ended with the token of the answer to its second attempt
\* cached, on a connection that had none
C38_Witness ==
    \E c \in Calls :
        /\ IsConnectCall(c)
        /\ calls[c].pc = "done"
        /\ calls[c].result = OK
        /\ calls[c].nWire = 2
        /\ calls[c].fAttempt = 1
        /\ csrfToken = "T2"

-----------------------------------------------------------------------------
(* Who writes the cached CSRF token *)

\* in this step the fetch of call c returns the token of a response and its
\* caller (connect, upfront fetch, CSRF-invalid branch, 401-on-GET branch)
\* stores it
StoresReturnedToken(c) ==
    /\ calls[c].pc = "fetchWait"
    /\ \E r \in DiscoveryOutcomes(calls[c].req) :
         /\ CarriesToken(r)
         /\ csrfToken' = r.token
         /\ calls'[c] = FetchResume(Here(c), r).l

\* in this step the refresh call c awaits succeeds and reset() clears the token
ClearsOnRefresh(c) ==
    /\ calls[c].pc = "refreshWait"
    /\ currentToken' = currentToken + 1
    /\ csrfToken' = NULL

\* an attempt of the fetch of call c that brings no token leaves the cached
\* token as it is, whether the fetch goes on or fails
FailedAttemptKeepsToken(c) ==
    calls[c].pc = "fetchWait" =>
        \A r \in DiscoveryOutcomes(calls[c].req) :
            ~CarriesToken(r) => FetchResume(Here(c), r).g.csrfToken = csrfToken

\* C39: the CSRF fetch never writes the cached CSRF token itself: the cached
\* token changes only where a caller stores the value the fetch returned or
\* where a refresh clears it with reset(), and a failed fetch leaves it
\* exactly as it was.
C39_OnlyCallersWriteToken ==
    /\ [](\A c \in Calls : FailedAttemptKeepsToken(c))
    /\ [][csrfToken' # csrfToken =>
            \E c \in Calls : StoresReturnedToken(c) \/ ClearsOnRefresh(c)]_vars

\* a call ended by the failure of the re-fetch of the CSRF-invalid branch,
\* all attempts used, with the token cached before still in place
C39_Witness ==
    \E c \in Calls :
        /\ calls[c].pc = "done"
        /\ calls[c].fRet = "csrfRetry"
        /\ calls[c].fAttempt = CsrfRetryBudget
        /\ calls[c].nMain = 1
        /\ calls[c].hdrs.csrf = "T1"
        /\ csrfToken = "T1"

-----------------------------------------------------------------------------
(* Permission-denied classification *)

\* String.prototype.toLowerCase, piece by piece
LowerCase(piece) ==
    CASE piece \in {"No", "NO", "no"}                               -> "no"
      [] piece \in {"authorization", "AUTHORIZATION"}               -> "authorization"
      [] piece \in {"Missing", "missing"}                           -> "missing"
      [] piece \in {"Access", "access"}                             -> "access"
      [] piece = "ExceptionResource"                                -> "exceptionresource"
      [] piece = "Unauthorized"                                     -> "unauthorized"
      [] OTHER                                                      -> piece

toLowerCase(text) == [i \in DOMAIN text |-> LowerCase(text[i])]

\* the body mentions "no access", "no authorization" or "missing
\* authorization" in some letter case
MentionsDenial(body) ==
    \E m \in {<<"no", " ", "access">>, <<"no", " ", "authorization">>,
              <<"missing", " ", "authorization">>} :
        includes(toLowerCase(BodyText(body)), m)

\* C40: a 401/403 answer to the request of a JWT connection whose body
\* contains "no access", "no authorization" or "missing authorization" in any
\* letter case is permission-denied: the call ends with that error and no
\* refresh is started.
C40_DenialInAnyCaseIsNotRefreshed ==
    \A c \in Calls :
        (config.authType = "jwt" /\ calls[c].pc = "mainWait" /\ calls[c].phase = "first")
            => \A r \in MainOutcomes(calls[c].req) :
                 (r.kind = "http" /\ r.status \in {401, 403} /\ MentionsDenial(r.body))
                    => LET T == MainResume(Here(c), r)
                       IN /\ T.l.pc = "done"
                          /\ T.l.result = HttpError(r.status, r.body)
                          /\ T.l.nRefresh = calls[c].nRefresh
                          /\ T.g.endpointCalls = endpointCalls

====
